---- MODULE Spec2Model ----
(***************************************************************************)
(* Minutero: streaming audio / transcription orchestration.                *)
(*                                                                         *)
(* Three parts of the program are modelled, each with its own              *)
(* specifications over the shared variables:                               *)
(*   Spec, SpecLoad, SpecAM                                                *)
(*                  TranscriptionEngine (core/transcription_engine.py)     *)
(*                  driving AudioManager producers (core/audio_manager.py) *)
(*                  on one asyncio event loop.  Spec has overlapping       *)
(*                  pipelines, SpecLoad overlapping model loads, SpecAM    *)
(*                  direct calls of the AudioManager API.                  *)
(*   SpecAdapter    WhisperModel.transcribe_stream, the windowed adapter   *)
(*                  (plugins/whisper_model.py), with its byte arithmetic.  *)
(*   SpecFile       AudioManager._file_stream_generator.                   *)
(*                                                                         *)
(* A coroutine runs atomically between two suspension points (await on a   *)
(* pending future); every suspension point is a value of a pc field.       *)
(***************************************************************************)
EXTENDS Integers, Sequences, FiniteSets, TLC

(***************************************************************************)
(* Bounds of the model.                                                    *)
(***************************************************************************)
MaxTasks == 2        \* pipeline task objects alive at the same time
MaxInst == 2        \* model instances alive at the same time

Tags == {"t1", "t2"}
Sources == {"microphone", "file", "screen", "other"}
\* what file_path refers to: nothing (empty), a missing file, a WAV file of
\* the wrong format, a valid WAV file
Paths == {"none", "missing", "badfmt", "ok"}
Keys == {"whisper_model", "whisper"}
Opts == {"none", "base", "small"}

VARIABLES
    current_model,        \* TranscriptionEngine.current_model: instance id, 0 = None
    inst,                 \* the model instances constructed so far
    tasks,                \* the pipeline tasks (asyncio.Task of _process_audio_stream)
    transcription_tasks,  \* TranscriptionEngine.transcription_tasks: tag -> task, 0 = absent
    active_streams,       \* AudioManager.active_streams: tag -> owning producer, 0 = absent
    stops,                \* tasks a stop_transcription_stream call is awaiting
    ev,                   \* the step just taken: operation, tag, outcome, task
    ad,                   \* state of one transcribe_stream run (SpecAdapter)
    fg,                   \* state of one _file_stream_generator run (SpecFile)
    ws,                   \* the consumer side: websocket_transcribe and its sink
    pr                    \* state of one producer run in detail (SpecMic, SpecLoop)

engineVars == <<current_model, inst, tasks, transcription_tasks, active_streams, stops>>
vars == <<current_model, inst, tasks, transcription_tasks, active_streams, stops, ev, ad, fg, ws, pr>>

TaskIds == 1..MaxTasks
InstIds == 1..MaxInst

Ev(op, tag, res, k) == [op |-> op, tag |-> tag, res |-> res, task |-> k]

\* a step of the event loop that is not the call or the return of an API
\* coroutine
Internal == Ev("internal", "-", "-", 0)

(***************************************************************************)
(* Model instances (plugins/whisper_model.py, core/model_factory.py).      *)
(*   st: "free"      not constructed yet                                   *)
(*       "loading"   constructed, load_model suspended in asyncio.to_thread*)
(*       "ready"     whisper.load_model returned: the weights are in       *)
(*                   memory, the coroutine has not resumed yet             *)
(*       "failed"    whisper.load_model raised, coroutine not resumed yet  *)
(*       "loaded"    _model set, is_loaded = True                          *)
(*       "unloaded"  unload_model released _model                          *)
(*       "dead"      load failed                                           *)
(* An instance that holds no weights and that neither current_model nor a  *)
(* running pipeline refers to is garbage: its record is "free" again.      *)
(***************************************************************************)
FreeInst == [size |-> "none", st |-> "free"]

\* ModelFactory._load_plugins registers each plugin class under its module
\* name: plugins/whisper_model.py -> "whisper_model".
Registered == {"whisper_model"}

\* kwargs.get('model_size', 'base') and WhisperModel.__init__'s default
SizeOrDefault(opt) == IF opt = "none" THEN "base" ELSE opt

\* f"{model_name_key}-{kwargs.get('model_size', 'base')}"
RequestedName(key, opt) == <<key, SizeOrDefault(opt)>>

\* BaseModel.model_name as WhisperModel.__init__ sets it: f"whisper-{model_size}"
ModelName(i) == <<"whisper", inst[i].size>>

IsLoaded(i) == inst[i].st = "loaded"

\* The weights of instance i are in memory.
Resident(i) == inst[i].st \in {"ready", "loaded"}

NextInst == CHOOSE i \in InstIds : inst[i].st = "free" /\ \A j \in InstIds : inst[j].st = "free" => i <= j

\* WhisperModel.unload_model on instance c
UnloadModel(c) == [inst EXCEPT ![c].st = IF @ = "loaded" THEN "unloaded" ELSE @]

\* line 25: the same configuration is already loaded
AlreadyLoaded(key, opt) ==
    /\ current_model # 0
    /\ ModelName(current_model) = RequestedName(key, opt)
    /\ IsLoaded(current_model)

(***************************************************************************)
(* Pipeline tasks: _process_audio_stream iterating transcribe_stream, which *)
(* iterates the producer's async generator.                                *)
(*   pc: "free"            no such task                                    *)
(*       "created"         asyncio.create_task done, coroutine not started *)
(*       "wait_chunk"      producer suspended waiting for its next chunk   *)
(*                         (event.wait / asyncio.sleep / q.get)            *)
(*       "wait_transcribe" adapter awaiting asyncio.to_thread(transcribe)  *)
(*                         for a window, the producer suspended at yield   *)
(*       "cleanup_cancel"  loopback generator in its finally (sleep 0.1)   *)
(*                         after swallowing CancelledError                 *)
(*       "cleanup_error"   the same after a producer error                 *)
(*       "wait_tail"       adapter awaiting the tail flush's transcribe    *)
(*       "done"            the task has finished                           *)
(*   gen: the producer generator: "none" (start_stream returned None),     *)
(*       "fresh" (not started), "open" (started, holds its device, file or *)
(*       capture thread), "halted" (open, but its capture thread has left  *)
(*       its loop), "orphan" (suspended at yield, its consumer gone, not   *)
(*       finalized yet), "closing" (in its finally, asleep), "closed"      *)
(*   cancel: Task.cancel() was called and CancelledError is not delivered  *)
(*   model: the instance whose transcribe_stream the task iterates         *)
(*   pending: bytes are buffered that no successful window has covered     *)
(*   at: where the task was suspended when Task.cancel() was called        *)
(* A finished task that no dict, no awaiting stop call and no unfinished   *)
(* generator refers to is garbage: its record is "free" again.             *)
(***************************************************************************)
FreeTask == [tag |-> "-", src |-> "-", path |-> "none", pc |-> "free", gen |-> "none",
             cancel |-> FALSE, model |-> 0, pending |-> FALSE, at |-> "-"]

NextTask == CHOOSE k \in TaskIds : tasks[k].pc = "free" /\ \A j \in TaskIds : tasks[j].pc = "free" => k <= j

\* task k of ts is still referred to
LiveTask(ts, tt, as, st, k) ==
    \/ ts[k].pc \notin {"free", "done"}
    \/ ts[k].gen \in {"orphan", "closing"}
    \/ k \in st
    \/ \E t \in Tags : tt[t] = k \/ as[t] = k

\* the fields of a finished task that nothing reads any more are cleared
ReapTasks(ts, tt, as, st) ==
    [k \in TaskIds |->
        IF ~LiveTask(ts, tt, as, st, k) THEN FreeTask
        ELSE IF ts[k].pc = "done"
        THEN [ts[k] EXCEPT !.model = 0, !.pending = FALSE, !.path = "none",
                           !.at = IF k \in st THEN @ ELSE "-",
                           !.src = IF ts[k].gen \in {"orphan", "closing"} THEN @ ELSE "-",
                           !.gen = IF @ \in {"none", "fresh"} THEN "closed" ELSE @]
        ELSE ts[k]]

ReapInst(cm, ins, ts) ==
    [i \in InstIds |->
        IF ins[i].st \in {"unloaded", "dead"} /\ cm # i /\ \A k \in TaskIds : ts[k].model # i
        THEN FreeInst ELSE ins[i]]

\* the engine's and the manager's next state, garbage dropped
Commit(cm, ins, ts, tt, as, st) ==
    /\ current_model' = cm
    /\ tasks' = ReapTasks(ts, tt, as, st)
    /\ inst' = ReapInst(cm, ins, ReapTasks(ts, tt, as, st))
    /\ transcription_tasks' = tt
    /\ active_streams' = as
    /\ stops' = st

\* TranscriptionEngine.load_transcription_model up to its first suspension
LoadModel(key, opt) ==
    /\ UNCHANGED <<ad, fg, pr, ws>>
    /\ IF AlreadyLoaded(key, opt)
       THEN /\ ev' = Ev("load_transcription_model", "-", "noop", 0)
            /\ UNCHANGED engineVars
       ELSE LET unl == IF current_model # 0 THEN UnloadModel(current_model) ELSE inst
            IN IF key \notin Registered
               THEN \* get_model_instance raises ValueError; except: current_model = None
                    /\ Commit(0, unl, tasks, transcription_tasks, active_streams, stops)
                    /\ ev' = Ev("load_transcription_model", "-", "raised", 0)
               ELSE /\ \E i \in InstIds : inst[i].st = "free"
                    /\ Commit(NextInst,
                              [unl EXCEPT ![NextInst] = [size |-> SizeOrDefault(opt), st |-> "loading"]],
                              tasks, transcription_tasks, active_streams, stops)
                    /\ ev' = Ev("load_transcription_model", "-", "awaiting", NextInst)

\* whisper.load_model finishes in its worker thread
LoadThreadDone(i, ok) ==
    /\ inst[i].st = "loading"
    /\ inst' = [inst EXCEPT ![i].st = IF ok THEN "ready" ELSE "failed"]
    /\ ev' = Internal
    /\ UNCHANGED <<current_model, tasks, transcription_tasks, active_streams, stops, ad, fg, pr, ws>>

\* A faulty variant of LoadResume: a failed load leaves current_model as it is.
LoadResumeKeepsCurrent(i) ==
    /\ inst[i].st \in {"ready", "failed"}
    /\ UNCHANGED <<ad, fg, pr, ws>>
    /\ IF inst[i].st = "ready"
       THEN /\ Commit(current_model, [inst EXCEPT ![i].st = "loaded"],
                      tasks, transcription_tasks, active_streams, stops)
            /\ ev' = Ev("load_return", "-", "returned", i)
       ELSE /\ Commit(current_model, [inst EXCEPT ![i].st = "dead"],
                      tasks, transcription_tasks, active_streams, stops)
            /\ ev' = Ev("load_return", "-", "raised", i)

\* load_model resumes and load_transcription_model returns, or raises after
\* "self.current_model = None"
LoadResume(i) ==
    /\ inst[i].st \in {"ready", "failed"}
    /\ UNCHANGED <<ad, fg, pr, ws>>
    /\ IF inst[i].st = "ready"
       THEN /\ Commit(current_model, [inst EXCEPT ![i].st = "loaded"],
                      tasks, transcription_tasks, active_streams, stops)
            /\ ev' = Ev("load_return", "-", "returned", i)
       ELSE /\ Commit(0, [inst EXCEPT ![i].st = "dead"],
                      tasks, transcription_tasks, active_streams, stops)
            /\ ev' = Ev("load_return", "-", "raised", i)

\* A loaded instance nothing refers to any more is garbage collected.
Collect(i) ==
    /\ inst[i].st = "loaded"
    /\ current_model # i
    /\ \A k \in TaskIds : tasks[k].model # i
    /\ inst' = [inst EXCEPT ![i] = FreeInst]
    /\ ev' = Internal
    /\ UNCHANGED <<current_model, tasks, transcription_tasks, active_streams, stops, ad, fg, pr, ws>>

\* A faulty variant of ModelUsable: the is_loaded flag is not looked at.
ModelUsableNoFlag == current_model # 0

\* line 94: a model is loaded
ModelUsable == current_model # 0 /\ IsLoaded(current_model)

\* AudioManager.start_stream: "none" (returns None: tag already active),
\* "fresh" (a generator object, its body not yet run) or "raise"
StartStream(src, tag, path) ==
    IF active_streams[tag] # 0 THEN "none"
    ELSE IF src = "microphone" THEN "fresh"
    ELSE IF src = "file" THEN (IF path = "none" THEN "raise" ELSE "fresh")
    ELSE IF src = "screen" THEN "fresh"
    ELSE "raise"

\* lines 90-92: the tag already has a task
StartIgnored(src, tag, path) ==
    /\ ev' = Ev("start_transcription_stream", tag, "ignored", transcription_tasks[tag])
    /\ UNCHANGED engineVars

\* lines 94-96
StartNoModel(src, tag, path) ==
    /\ ev' = Ev("start_transcription_stream", tag, "raised_no_model", 0)
    /\ UNCHANGED engineVars

\* TranscriptionEngine.start_transcription_stream (it never suspends:
\* AudioManager.start_stream has no await inside)
StartTranscription(src, tag, path) ==
    /\ UNCHANGED <<ad, fg, pr>>
    /\ IF transcription_tasks[tag] # 0 THEN StartIgnored(src, tag, path)
       ELSE IF ~ModelUsable THEN StartNoModel(src, tag, path)
       ELSE IF StartStream(src, tag, path) = "raise"
       THEN \* except: nothing registered for the tag, re-raise
            /\ ev' = Ev("start_transcription_stream", tag, "raised", 0)
            /\ UNCHANGED engineVars
       ELSE /\ \E k \in TaskIds : tasks[k].pc = "free"
            /\ Commit(current_model, inst,
                      [tasks EXCEPT ![NextTask] =
                          [tag |-> tag, src |-> src, path |-> path, pc |-> "created",
                           gen |-> StartStream(src, tag, path), cancel |-> FALSE,
                           model |-> 0, pending |-> FALSE, at |-> "-"]],
                      [transcription_tasks EXCEPT ![tag] = NextTask], active_streams, stops)
            /\ ev' = Ev("start_transcription_stream", tag, "started", NextTask)

\* A faulty variant of StopInactive: it also drops the tag's producer handle.
StopInactiveDropsHandle(tag) ==
    /\ ev' = Ev("stop_transcription_stream", tag, "not_found", 0)
    /\ active_streams' = [active_streams EXCEPT ![tag] = 0]
    /\ UNCHANGED <<current_model, inst, tasks, transcription_tasks, stops>>

\* lines 139-140: no task for the tag
StopInactive(tag) ==
    /\ ev' = Ev("stop_transcription_stream", tag, "not_found", 0)
    /\ UNCHANGED engineVars

\* A faulty variant of StopTranscription: the tag of a task that has already
\* finished is not popped.
StopTranscriptionKeepsFinished(tag) ==
    /\ UNCHANGED <<ad, fg, pr>>
    /\ IF transcription_tasks[tag] = 0 THEN StopInactive(tag)
       ELSE LET k == transcription_tasks[tag]
                tt == [transcription_tasks EXCEPT ![tag] = 0]
            IN IF tasks[k].pc = "done"
               THEN /\ Commit(current_model, inst, tasks, transcription_tasks, active_streams, stops)
                    /\ ev' = Ev("stop_transcription_stream", tag, "returned", k)
               ELSE /\ Commit(current_model, inst,
                              [tasks EXCEPT ![k].cancel = TRUE, ![k].at = tasks[k].pc], tt,
                              active_streams, stops \cup {k})
                    /\ ev' = Ev("stop_transcription_stream", tag, "awaiting", k)

\* TranscriptionEngine.stop_transcription_stream up to "await task".  Line
\* 137 calls the coroutine function AudioManager.stop_stream without await:
\* the coroutine object is dropped and its body never runs.
StopTranscription(tag) ==
    /\ UNCHANGED <<ad, fg, pr>>
    /\ IF transcription_tasks[tag] = 0 THEN StopInactive(tag)
       ELSE LET k == transcription_tasks[tag]
                tt == [transcription_tasks EXCEPT ![tag] = 0]
            IN IF tasks[k].pc = "done"
               THEN \* cancel() of a finished task does nothing, await returns at once
                    /\ Commit(current_model, inst, tasks, tt, active_streams, stops)
                    /\ ev' = Ev("stop_transcription_stream", tag, "returned", k)
               ELSE /\ Commit(current_model, inst,
                              [tasks EXCEPT ![k].cancel = TRUE, ![k].at = tasks[k].pc], tt,
                              active_streams, stops \cup {k})
                    /\ ev' = Ev("stop_transcription_stream", tag, "awaiting", k)

\* The awaited task has finished: stop_transcription_stream resumes and
\* returns.  The event tells where the cancellation had reached the task.
StopReturn(k) ==
    /\ k \in stops
    /\ tasks[k].pc = "done"
    /\ Commit(current_model, inst, tasks, transcription_tasks, active_streams, stops \ {k})
    /\ ev' = Ev("stop_return", tasks[k].tag, tasks[k].at, k)
    /\ UNCHANGED <<ad, fg, pr>>

\* No Task.cancel() is waiting to be delivered.  The event loop runs its
\* ready queue in order: the wake-up that delivers a CancelledError is queued
\* by cancel(), before the first step of any task created after it.
NoCancelPending == \A j \in TaskIds : ~tasks[j].cancel

\* the buffer holds undispatched bytes when the producer has ended: the tail
\* flush awaits transcribe, unless the bound model has been unloaded, when
\* self._model.transcribe raises at once and the error is caught
AfterProducerEnd(k) == IF tasks[k].pending /\ IsLoaded(tasks[k].model) THEN "wait_tail" ELSE "done"

\* task k's record changes to r, the dicts to tt and as
Step(k, r, as) ==
    Commit(current_model, inst, [tasks EXCEPT ![k] = r], transcription_tasks, as, stops)

\* A faulty variant of DelHandle: every handle is dropped.
DelHandleAll(tag) == [t \in Tags |-> 0]

\* "if source_tag in self.active_streams: del self.active_streams[source_tag]"
DelHandle(tag) == [active_streams EXCEPT ![tag] = 0]

\* The first step of a pipeline task: _process_audio_stream binds
\* self.current_model, transcribe_stream checks it, the producer's body runs
\* up to its first suspension.  devOk: the input device can be opened.
TaskFirstStep(k, devOk) ==
    /\ tasks[k].pc = "created"
    /\ NoCancelPending
    /\ UNCHANGED <<ad, fg, pr, ws>>
    /\ LET t == tasks[k] IN
       IF current_model = 0
       THEN /\ Step(k, [t EXCEPT !.pc = "done"], active_streams)
            /\ ev' = Internal
       ELSE IF ~IsLoaded(current_model)
       THEN /\ Step(k, [t EXCEPT !.pc = "done"], active_streams)
            /\ ev' = Internal
       ELSE IF t.gen = "none"
       THEN \* async for over None: TypeError, caught by _process_audio_stream
            /\ Step(k, [t EXCEPT !.pc = "done"], active_streams)
            /\ ev' = Internal
       ELSE IF t.src = "screen"
       THEN \* line 219: self.active_streams[source_tag] = (record_task, stop_event)
            /\ Step(k, [t EXCEPT !.pc = "wait_chunk", !.gen = "open", !.model = current_model],
                    [active_streams EXCEPT ![t.tag] = k])
            /\ ev' = Internal
       ELSE IF (t.src = "file" /\ t.path = "ok") \/ (t.src = "microphone" /\ devOk)
       THEN /\ Step(k, [t EXCEPT !.pc = "wait_chunk", !.gen = "open", !.model = current_model],
                    active_streams)
            /\ ev' = Internal
       ELSE \* FileNotFoundError, ValueError (format) or PortAudioError
            /\ Step(k, [t EXCEPT !.pc = "done", !.gen = "closed"], active_streams)
            /\ ev' = Internal

\* The producer yields a chunk; reached: the buffered duration has reached
\* BUFFER_DURATION_SECONDS (the arithmetic is that of SpecAdapter).
ChunkArrives(k, reached) ==
    /\ tasks[k].pc = "wait_chunk"
    /\ tasks[k].gen = "open"
    /\ ~tasks[k].cancel
    /\ Step(k, [tasks[k] EXCEPT !.pending = TRUE,
                                !.pc = IF reached /\ IsLoaded(tasks[k].model)
                                       THEN "wait_transcribe" ELSE "wait_chunk"],
            active_streams)
    /\ ev' = Internal
    /\ UNCHANGED <<ad, fg, pr, ws>>

\* a window's transcribe call finishes; its segments go to the output callback
TranscribeDone(k, ok) ==
    /\ tasks[k].pc = "wait_transcribe"
    /\ ~tasks[k].cancel
    /\ Step(k, [tasks[k] EXCEPT !.pc = "wait_chunk", !.pending = IF ok THEN FALSE ELSE @],
            active_streams)
    /\ ev' = Internal
    /\ UNCHANGED <<ad, fg, pr, ws>>

\* end of file: only the file producer is finite
SourceEnds(k) ==
    /\ tasks[k].pc = "wait_chunk"
    /\ tasks[k].gen = "open"
    /\ tasks[k].src = "file"
    /\ ~tasks[k].cancel
    /\ Step(k, [tasks[k] EXCEPT !.gen = "closed", !.pc = AfterProducerEnd(k)], active_streams)
    /\ ev' = Internal
    /\ UNCHANGED <<ad, fg, pr, ws>>

\* the tail flush's transcribe call finishes
TailDone(k, ok) ==
    /\ tasks[k].pc = "wait_tail"
    /\ ~tasks[k].cancel
    /\ Step(k, [tasks[k] EXCEPT !.pc = "done"], active_streams)
    /\ ev' = Internal
    /\ UNCHANGED <<ad, fg, pr, ws>>

\* The producer raises while the task waits for a chunk (device error, read
\* error, an exception the capture thread put in the queue).  threadDone:
\* the loopback record_task is already done, so the finally does not sleep.
ProducerError(k, threadDone) ==
    /\ tasks[k].pc = "wait_chunk"
    /\ tasks[k].gen = "open"
    /\ ~tasks[k].cancel
    /\ ev' = Internal
    /\ UNCHANGED <<ad, fg, pr, ws>>
    /\ IF tasks[k].src = "screen"
       THEN IF threadDone
            THEN Step(k, [tasks[k] EXCEPT !.pc = "done", !.gen = "closed"], DelHandle(tasks[k].tag))
            ELSE Step(k, [tasks[k] EXCEPT !.pc = "cleanup_error", !.gen = "closing"], active_streams)
       ELSE Step(k, [tasks[k] EXCEPT !.pc = "done", !.gen = "closed"], active_streams)

\* The CancelledError of Task.cancel() is thrown into the task at the await
\* it is suspended in.
CancelDelivered(k, threadDone) ==
    /\ tasks[k].cancel
    /\ UNCHANGED <<ad, fg, pr, ws>>
    /\ ev' = Internal
    /\ LET t == [tasks[k] EXCEPT !.cancel = FALSE] IN
       IF t.pc = "wait_chunk" /\ t.src = "screen"
       THEN \* except asyncio.CancelledError: logged and swallowed; finally
            IF t.gen = "open" /\ ~threadDone
            THEN Step(k, [t EXCEPT !.pc = "cleanup_cancel", !.gen = "closing"], active_streams)
            ELSE Step(k, [t EXCEPT !.gen = "closed", !.pc = AfterProducerEnd(k)], DelHandle(t.tag))
       ELSE IF t.pc = "wait_chunk"
       THEN \* microphone, file: the error unwinds the generator (with, finally)
            Step(k, [t EXCEPT !.pc = "done", !.gen = "closed"], active_streams)
       ELSE IF t.pc = "wait_transcribe"
       THEN \* except Exception does not catch CancelledError: it leaves
            \* transcribe_stream; the producer stays suspended at its yield
            Step(k, [t EXCEPT !.pc = "done", !.gen = "orphan"], active_streams)
       ELSE IF t.pc = "cleanup_error"
       THEN \* raised at the sleep inside finally: the rest of it is skipped
            Step(k, [t EXCEPT !.pc = "done", !.gen = "closed"], active_streams)
       ELSE \* "created" (the coroutine never starts), "wait_tail"
            Step(k, [t EXCEPT !.pc = "done"], active_streams)

\* The loopback generator's finally after its sleep: executor.shutdown, then
\* the handle of the tag is deleted.
CleanupDone(k) ==
    /\ tasks[k].gen = "closing"
    /\ ~tasks[k].cancel
    /\ Step(k, [tasks[k] EXCEPT !.gen = "closed",
                                !.pc = IF @ = "cleanup_cancel" THEN AfterProducerEnd(k) ELSE "done"],
            DelHandle(tasks[k].tag))
    /\ ev' = Internal
    /\ UNCHANGED <<ad, fg, pr, ws>>

\* An orphaned generator is finalized: the event loop's asyncgen hook runs
\* aclose() once the generator is unreachable.  The hook's task is queued
\* behind the wake-up of the stop call that awaits the pipeline task.
Finalize(k, threadDone) ==
    /\ tasks[k].gen = "orphan"
    /\ k \notin stops
    /\ ev' = Internal
    /\ UNCHANGED <<ad, fg, pr, ws>>
    /\ IF tasks[k].src = "screen"
       THEN IF threadDone
            THEN Step(k, [tasks[k] EXCEPT !.gen = "closed"], DelHandle(tasks[k].tag))
            ELSE Step(k, [tasks[k] EXCEPT !.gen = "closing"], active_streams)
       ELSE Step(k, [tasks[k] EXCEPT !.gen = "closed"], active_streams)

(***************************************************************************)
(* Direct calls of the AudioManager API (SpecAM).                          *)
(***************************************************************************)
\* AudioManager.start_stream: it only hands out the generator object
AMStartStream(src, tag, path) ==
    /\ ev' = Ev("start_stream", tag, StartStream(src, tag, path), 0)
    /\ UNCHANGED <<engineVars, ad, fg, pr, ws>>

\* lines 281-282: no handle for the tag
AMStopInactive(tag) ==
    /\ ev' = Ev("stop_stream", tag, "not_found", 0)
    /\ UNCHANGED engineVars

\* AudioManager.stop_stream: pops the handle, sets the stop event (the
\* capture thread leaves its loop and queues nothing more), cancels the
\* executor future; awaiting the cancelled future raises at once.
AMStopStream(tag) ==
    /\ UNCHANGED <<ad, fg, pr, ws>>
    /\ IF active_streams[tag] = 0 THEN AMStopInactive(tag)
       ELSE LET k == active_streams[tag]
            IN /\ Commit(current_model, inst,
                         [tasks EXCEPT ![k].gen = IF @ = "open" THEN "halted" ELSE @],
                         transcription_tasks, DelHandle(tag), stops)
               /\ ev' = Ev("stop_stream", tag, "returned", k)

(***************************************************************************)
(* WhisperModel.transcribe_stream, the windowed adapter (SpecAdapter).     *)
(* Lengths and times are counted in bytes of 16-bit mono PCM: one second   *)
(* is BytesPerSecond bytes, a timestamp t stands for t / BytesPerSecond    *)
(* seconds.                                                                *)
(*   pc: "new"        the generator object exists, its body has not run    *)
(*       "loop"       suspended in "async for chunk in audio_stream"       *)
(*       "transcribe" awaiting asyncio.to_thread(transcribe) for a window  *)
(*       "tail"       the same for the tail flush                          *)
(*       "done"       the generator has returned; "raised": line 102       *)
(*   sent: the bytes of the spans whose transcribe call has returned       *)
(***************************************************************************)
AUDIO_SAMPLE_RATE == 16000
AUDIO_CHUNK_SIZE == 1024
BUFFER_DURATION_SECONDS == 5

MaxChunks == 160     \* chunks one source produces
MaxFails == 2        \* transcribe calls that raise in one run

\* settings.AUDIO_SAMPLE_RATE * 2
BytesPerSecond == AUDIO_SAMPLE_RATE * 2

\* a full chunk: AUDIO_CHUNK_SIZE frames of 2 bytes
ChunkBytes == AUDIO_CHUNK_SIZE * 2

\* the last chunk of a file may be shorter (wf.readframes at the end)
ShortLens == {256, 1024}

ThresholdBytes == BUFFER_DURATION_SECONDS * BytesPerSecond

\* Line 119 is evaluated in float64.  For these byte counts the exact
\* difference is 5 seconds and the float64 difference is 4.999999999999999
\* (all such pairs for the origins the loop reaches within 170 full chunks
\* and one shorter chunk).
FloatShort(last, tell) ==
    /\ tell - last = ThresholdBytes
    /\ last \in {79 * ChunkBytes + j * ChunkBytes : j \in 0..6}

\* line 119: total_audio_length - last_transcription_end >= BUFFER_DURATION_SECONDS
Reached(last, tell) == tell - last >= ThresholdBytes /\ ~FloatShort(last, tell)

\* lines 123, 160: the slice starts at int(last_transcription_end * rate * 2),
\* which is the origin's byte count for every origin of up to 170 chunks
Span(last, tell) == tell - last

\* np.frombuffer(..., dtype=np.int16) raises on an odd number of bytes
SpanOk(span) == span % 2 = 0

\* A faulty variant of AbsoluteStart: the window's origin is not added.
AbsoluteStartLocal(local, origin) == local

\* lines 141, 173: absolute_start = seg["start"] + last_transcription_end
AbsoluteStart(local, origin) == local + origin

\* A faulty variant of AdvanceOrigin: the origin advances by the threshold.
AdvanceOriginByThreshold(total, last) == last + ThresholdBytes

\* line 152: last_transcription_end = total_audio_length
AdvanceOrigin(total, last) == total

\* A faulty variant of TailNeeded: a remainder shorter than the threshold is
\* dropped.
TailNeededFullWindow(remaining) == remaining >= ThresholdBytes

\* line 161: if remaining_audio_bytes
TailNeeded(remaining) == remaining > 0

\* line 142, 174: absolute_end = seg["end"] + last_transcription_end
AbsoluteEnd(local, origin) == local + origin

\* the capability's seg["end"] for a segment it starts at local: every
\* returned segment lasts a tenth of a second
LocalEnd(local) == local + BytesPerSecond \div 10

\* A faulty variant of Emit: the segments of a window come out last first.
EmitReversed(result, origin, i) ==
    [j \in 1..Len(result) |->
        [i |-> i, local |-> result[Len(result) + 1 - j],
         start |-> AbsoluteStart(result[Len(result) + 1 - j], origin),
         end |-> AbsoluteEnd(LocalEnd(result[Len(result) + 1 - j]), origin)]]

\* lines 140-148, 172-180: one segment per returned segment, in order
Emit(result, origin, i) ==
    [j \in 1..Len(result) |->
        [i |-> i, local |-> result[j], start |-> AbsoluteStart(result[j], origin),
         end |-> AbsoluteEnd(LocalEnd(result[j]), origin)]]

\* What the capability may return for a span: local start times inside the
\* span, in chronological order.  The stub returns one segment at its offset.
Results(cap, off, span) ==
    IF cap = "stub" THEN {<<off>>}
    ELSE {<<>>, <<0>>, <<span>>, <<0, span>>, <<span \div 2, span \div 2>>}

AdNew(cap, off, loaded) ==
    [pc |-> "new", cap |-> cap, off |-> off, loaded |-> loaded, tell |-> 0, last |-> 0,
     chunks |-> 0, short |-> FALSE, calls |-> 0, fails |-> 0, win |-> 0, segs |-> <<>>,
     sent |-> 0]

\* lines 101-107: the first step of the generator
AdStart ==
    /\ ad.pc = "new"
    /\ ad' = [ad EXCEPT !.pc = IF ad.loaded THEN "loop" ELSE "raised"]
    /\ UNCHANGED <<engineVars, ev, fg, pr, ws>>

\* lines 114-137: a chunk of len bytes arrives
AdChunk(len) ==
    /\ ad.pc = "loop"
    /\ ~ad.short
    /\ ad.chunks < MaxChunks
    /\ LET tell == ad.tell + len
           got == [ad EXCEPT !.tell = tell, !.chunks = @ + 1, !.short = len < ChunkBytes]
       IN ad' = IF Reached(ad.last, tell) /\ Span(ad.last, tell) > 0
                THEN IF SpanOk(Span(ad.last, tell))
                     THEN [got EXCEPT !.pc = "transcribe", !.calls = @ + 1]
                     ELSE [got EXCEPT !.fails = @ + 1]
                ELSE got
    /\ UNCHANGED <<engineVars, ev, fg, pr, ws>>

\* A faulty variant of AdTranscribed: the error of a window is not caught
\* and ends the generator.
AdTranscribedStopsOnFailure(ok, result) ==
    /\ ad.pc = "transcribe"
    /\ ok \/ ad.fails < MaxFails
    /\ ad' = IF ok
             THEN [ad EXCEPT !.pc = "loop",
                             !.segs = @ \o Emit(result, ad.last, ad.win),
                             !.win = @ + 1,
                             !.sent = @ + Span(ad.last, ad.tell),
                             !.last = AdvanceOrigin(ad.tell, ad.last)]
             ELSE [ad EXCEPT !.pc = "done", !.fails = @ + 1]
    /\ UNCHANGED <<engineVars, ev, fg, pr, ws>>

\* lines 138-157: the window's transcribe call returns result, or raises
AdTranscribed(ok, result) ==
    /\ ad.pc = "transcribe"
    /\ ok \/ ad.fails < MaxFails
    /\ ad' = IF ok
             THEN [ad EXCEPT !.pc = "loop",
                             !.segs = @ \o Emit(result, ad.last, ad.win),
                             !.win = @ + 1,
                             !.sent = @ + Span(ad.last, ad.tell),
                             !.last = AdvanceOrigin(ad.tell, ad.last)]
             ELSE \* except Exception: continue
                  [ad EXCEPT !.pc = "loop", !.fails = @ + 1]
    /\ UNCHANGED <<engineVars, ev, fg, pr, ws>>

\* A faulty variant of AdSourceEnds: the tail flush is dispatched even when
\* no byte remains.
AdSourceEndsAlwaysFlushes ==
    /\ ad.pc = "loop"
    /\ ad' = IF SpanOk(Span(ad.last, ad.tell))
             THEN [ad EXCEPT !.pc = "tail", !.calls = @ + 1]
             ELSE [ad EXCEPT !.pc = "done", !.fails = @ + 1]
    /\ UNCHANGED <<engineVars, ev, fg, pr, ws>>

\* lines 159-171: the source has ended
AdSourceEnds ==
    /\ ad.pc = "loop"
    /\ ad' = IF TailNeeded(Span(ad.last, ad.tell))
             THEN IF SpanOk(Span(ad.last, ad.tell))
                  THEN [ad EXCEPT !.pc = "tail", !.calls = @ + 1]
                  ELSE [ad EXCEPT !.pc = "done", !.fails = @ + 1]
             ELSE [ad EXCEPT !.pc = "done"]
    /\ UNCHANGED <<engineVars, ev, fg, pr, ws>>

\* lines 172-182: the tail flush's transcribe call returns result, or raises
AdTailDone(ok, result) ==
    /\ ad.pc = "tail"
    /\ ok \/ ad.fails < MaxFails
    /\ ad' = IF ok
             THEN [ad EXCEPT !.pc = "done",
                             !.segs = @ \o Emit(result, ad.last, ad.win),
                             !.win = @ + 1,
                             !.sent = @ + Span(ad.last, ad.tell)]
             ELSE [ad EXCEPT !.pc = "done", !.fails = @ + 1]
    /\ UNCHANGED <<engineVars, ev, fg, pr, ws>>

(***************************************************************************)
(* AudioManager._file_stream_generator (SpecFile).                         *)
(*   pc: "new"      the generator object exists, its body has not run      *)
(*       "yielded"  suspended at "yield frames" / the pacing sleep         *)
(*       "done"     end of file; "not_found", "open_error", "bad_format":  *)
(*                  the exception the generator raised                     *)
(***************************************************************************)
MaxFrames == 2048    \* frames in a file

Min(a, b) == IF a <= b THEN a ELSE b

\* A faulty variant of FormatOk: the sample rate is not looked at.
FormatOkNoRate(channels, sampwidth, framerate) == channels = 1 /\ sampwidth = 2

\* line 85, negated: mono, 16 bit, the configured rate
FormatOk(channels, sampwidth, framerate) ==
    channels = 1 /\ sampwidth = 2 /\ framerate = AUDIO_SAMPLE_RATE

\* A faulty variant of ReadFrames: the rest of the file is read at once.
ReadFramesWhole(nframes, pos) == nframes - pos

\* wf.readframes(settings.AUDIO_CHUNK_SIZE) with pos frames already read
ReadFrames(nframes, pos) == Min(AUDIO_CHUNK_SIZE, nframes - pos)

FgNew(exists, wav, channels, sampwidth, framerate, nframes) ==
    [pc |-> "new", exists |-> exists, wav |-> wav, channels |-> channels,
     sampwidth |-> sampwidth, framerate |-> framerate, nframes |-> nframes,
     pos |-> 0, yielded |-> 0]

\* lines 94-99: read the next frames; yield them, or leave the loop
FgRead(f) ==
    IF ReadFrames(f.nframes, f.pos) = 0
    THEN [f EXCEPT !.pc = "done"]
    ELSE [f EXCEPT !.pc = "yielded", !.pos = @ + ReadFrames(f.nframes, f.pos),
                   !.yielded = @ + 1]

\* lines 79-98: the first step of the generator
FgOpen ==
    /\ fg.pc = "new"
    /\ fg' = IF ~fg.exists THEN [fg EXCEPT !.pc = "not_found"]
             ELSE IF ~fg.wav THEN [fg EXCEPT !.pc = "open_error"]
             ELSE IF ~FormatOk(fg.channels, fg.sampwidth, fg.framerate)
             THEN [fg EXCEPT !.pc = "bad_format"]
             ELSE FgRead(fg)
    /\ UNCHANGED <<engineVars, ev, ad, ws, pr>>

\* lines 99, 95-98: the consumer asks for the next chunk
FgNextChunk ==
    /\ fg.pc = "yielded"
    /\ fg' = FgRead(fg)
    /\ UNCHANGED <<engineVars, ev, ad, ws, pr>>

(***************************************************************************)
(* The delivery loop of _process_audio_stream and the output callback      *)
(* (SpecSink).  ad is the transcribe_stream generator the loop iterates;   *)
(* ws is the loop:                                                         *)
(*   pc: "iterate"   in the "async for", the task is alive                 *)
(*       "finished"  the generator was exhausted                           *)
(*       "ended"     an exception ended the loop (line 66)                 *)
(*   sink: the output_callback passed to start_transcription_stream        *)
(*   next: index in ad.segs of the next segment to hand to the callback    *)
(***************************************************************************)
MaxSendFails == 2    \* deliveries that fail in one run

\* what websocket.send_json does for one segment
SendOutcomes == {"sent", "disconnect", "error"}

\* main.py send_segment_to_client: both except clauses log and fall through
SendSegmentToClient(outcome) == "returned"

\* a callback that lets the exception of a failed delivery out
PlainCallback(outcome) == IF outcome = "sent" THEN "returned" ELSE "raised"

\* "await output_callback(segment)"
OutputCallback(sink, outcome) ==
    IF sink = "websocket" THEN SendSegmentToClient(outcome) ELSE PlainCallback(outcome)

SinkNew(sink) ==
    [pc |-> "iterate", sink |-> sink, next |-> 1, lost |-> 0, lastLost |-> 0, lastSent |-> 0]

\* the loop is suspended in the generator: every segment yielded so far has
\* been handed to the callback
Iterating == ws.pc = "iterate" /\ ws.next > Len(ad.segs)

\* lines 62-67: the segment at ws.next is handed to the callback; an
\* exception of the callback leaves the "async for" and is caught outside it
Deliver(outcome) ==
    /\ ws.pc = "iterate"
    /\ ws.next <= Len(ad.segs)
    /\ outcome = "sent" \/ ws.lost < MaxSendFails
    /\ ws' = IF OutputCallback(ws.sink, outcome) = "raised"
             THEN [ws EXCEPT !.pc = "ended", !.lost = @ + 1, !.lastLost = ws.next]
             ELSE IF outcome = "sent"
             THEN [ws EXCEPT !.next = @ + 1, !.lastSent = ws.next]
             ELSE [ws EXCEPT !.next = @ + 1, !.lost = @ + 1, !.lastLost = ws.next]
    /\ UNCHANGED <<engineVars, ev, ad, fg, pr>>

\* lines 62, 66-69: the generator is exhausted, or raised at its first step
LoopExits ==
    /\ Iterating
    /\ ad.pc \in {"done", "raised"}
    /\ ws' = [ws EXCEPT !.pc = IF ad.pc = "done" THEN "finished" ELSE "ended"]
    /\ UNCHANGED <<engineVars, ev, ad, fg, pr>>

(***************************************************************************)
(* main.py websocket_transcribe, one connection at a time (SpecWs).        *)
(*   pc: "idle"          no connection                                     *)
(*       "initial"       awaiting the initial message                      *)
(*       "send_started"  awaiting send_json of the "started" status        *)
(*       "loop"          awaiting a message in the while loop              *)
(*       "await_stop"    inside "await engine.stop_transcription_stream"   *)
(*       "send_stopped"  awaiting send_json of the "stopped" status        *)
(*       "send_error"    awaiting send_json of the "error" status          *)
(*       "close"         in the finally block, after the stop              *)
(*       "closed"        the handler has returned                          *)
(*   cont: where the handler goes on when the awaited stop returns         *)
(*   why:  what made the handler leave: "-", "stop", "disconnect", "error" *)
(*   own:  the task the start request of this connection created, 0 when   *)
(*         it created none                                                 *)
(***************************************************************************)
WsNew(tag) ==
    [pc |-> "initial", tag |-> tag, await |-> 0, cont |-> "-", why |-> "-", own |-> 0]

\* a handler step that calls nothing in the engine
WsOnly(w) ==
    /\ ws' = w
    /\ ev' = Internal
    /\ UNCHANGED <<engineVars, ad, fg, pr>>

\* "await engine.stop_transcription_stream(source_tag)" up to its first
\* suspension; the handler goes on at cont when the call has returned
HandlerStop(w, cont) ==
    /\ StopTranscription(w.tag)
    /\ ws' = IF ev'.res = "awaiting"
             THEN [w EXCEPT !.pc = "await_stop", !.await = ev'.task, !.cont = cont]
             ELSE [w EXCEPT !.pc = cont]

\* A faulty variant of Finally: the pipeline of the tag is left alone.
FinallyNoStop(w) == WsOnly([w EXCEPT !.pc = "close"])

\* lines 300-302: the finally block stops the tag's pipeline if it has one
Finally(w) ==
    IF transcription_tasks[w.tag] # 0
    THEN HandlerStop(w, "close")
    ELSE WsOnly([w EXCEPT !.pc = "close"])

\* websocket.accept()
WsAccept(tag) ==
    /\ ws.pc \in {"idle", "closed"}
    /\ WsOnly(WsNew(tag))

\* the initial message is {"action": "start", ...} with a valid request
WsInitialStart(src, path) ==
    /\ ws.pc = "initial"
    /\ StartTranscription(src, ws.tag, path)
    /\ ws' = IF ev'.res \in {"started", "ignored"}
             THEN [ws EXCEPT !.pc = "send_started",
                             !.own = IF ev'.res = "started" THEN ev'.task ELSE 0]
             ELSE [ws EXCEPT !.pc = "send_error", !.why = "error"]

\* the initial message is {"action": "stop"}
WsInitialStop ==
    /\ ws.pc = "initial"
    /\ HandlerStop([ws EXCEPT !.why = "stop"], "send_stopped")

\* no usable initial message: another action or an invalid request
\* ("error"), or the client is gone or silent ("disconnect")
WsInitialFails(why) ==
    /\ ws.pc = "initial"
    /\ IF why = "error"
       THEN WsOnly([ws EXCEPT !.pc = "send_error", !.why = why])
       ELSE Finally([ws EXCEPT !.why = why])

\* send_json of the "started" status returns, or raises
WsSendStarted(outcome) ==
    /\ ws.pc = "send_started"
    /\ IF outcome = "sent" THEN WsOnly([ws EXCEPT !.pc = "loop"])
       ELSE IF outcome = "disconnect" THEN Finally([ws EXCEPT !.why = "disconnect"])
       ELSE WsOnly([ws EXCEPT !.pc = "send_error", !.why = "error"])

\* the while loop receives {"action": "stop"}
WsLoopStop ==
    /\ ws.pc = "loop"
    /\ HandlerStop([ws EXCEPT !.why = "stop"], "send_stopped")

\* the while loop receives another message, or the wait times out
WsLoopStays ==
    /\ ws.pc = "loop"
    /\ WsOnly(ws)

\* the while loop's receive raises WebSocketDisconnect ("disconnect") or
\* another exception ("error"): break, then the finally block
WsLoopBreaks(why) ==
    /\ ws.pc = "loop"
    /\ Finally([ws EXCEPT !.why = why])

\* the stop call the handler awaits returns
WsStopReturn ==
    /\ ws.pc = "await_stop"
    /\ StopReturn(ws.await)
    /\ ws' = [ws EXCEPT !.pc = ws.cont, !.await = 0, !.cont = "-"]

\* send_json of the "stopped" status: whatever its outcome the handler
\* leaves the try block (return, loop condition or break)
WsSendStopped ==
    /\ ws.pc = "send_stopped"
    /\ Finally(ws)

\* send_json of the "error" status, its own errors ignored
WsSendError ==
    /\ ws.pc = "send_error"
    /\ Finally(ws)

\* lines 303-308: the close is attempted, its errors ignored, and the
\* handler returns
WsClose ==
    /\ ws.pc = "close"
    /\ WsOnly([ws EXCEPT !.pc = "closed"])

(***************************************************************************)
(* AudioManager._microphone_stream_generator in detail (SpecMic).  The     *)
(* PortAudio thread runs callback; the event loop runs the calls handed    *)
(* over by call_soon_threadsafe in the order they were handed over, and    *)
(* the steps of the generator.                                             *)
(*   pc: "wait"     suspended in "await event.wait()"                      *)
(*       "drain"    at the test of "while not q.empty()"                   *)
(*       "yielded"  suspended at "yield chunk": the consumer has the chunk *)
(*       "sleep"    suspended in "await asyncio.sleep(0.001)"              *)
(*   hw: blocks the hardware has handed to callback, numbered from 1       *)
(*   cb: calls of the running callback made so far (0: no callback runs)   *)
(*   ready: the calls handed to the loop and not yet run                   *)
(*   q, event: the asyncio.Queue and the asyncio.Event                     *)
(*   got: the blocks yielded to the consumer                               *)
(***************************************************************************)
MaxBlocks == 3       \* blocks the hardware delivers in one run

\* A faulty variant of CallbackCalls: the event is set before the block is
\* queued.
CallbackCallsSetFirst(b) == <<[f |-> "set", b |-> 0], [f |-> "put", b |-> b]>>

\* lines 46-47: the two call_soon_threadsafe calls of callback for block b
CallbackCalls(b) == <<[f |-> "put", b |-> b], [f |-> "set", b |-> 0]>>

MicNew ==
    [pc |-> "wait", hw |-> 0, cb |-> 0, ready |-> <<>>, q |-> <<>>, event |-> FALSE,
     got |-> <<>>]

MicStep(p) ==
    /\ pr' = p
    /\ UNCHANGED <<engineVars, ev, ad, fg, ws>>

\* the hardware has a block: callback starts in the PortAudio thread and
\* makes its first call_soon_threadsafe
CallbackStarts ==
    /\ pr.pc # "idle"
    /\ pr.cb = 0
    /\ pr.hw < MaxBlocks
    /\ MicStep([pr EXCEPT !.hw = @ + 1, !.cb = 1,
                          !.ready = Append(@, CallbackCalls(pr.hw + 1)[1])])

\* callback makes its second call_soon_threadsafe and returns
CallbackEnds ==
    /\ pr.pc # "idle"
    /\ pr.cb = 1
    /\ MicStep([pr EXCEPT !.cb = 0, !.ready = Append(@, CallbackCalls(pr.hw)[2])])

\* the event loop runs the oldest call handed over: q.put_nowait(block) or
\* event.set()
LoopRuns ==
    /\ pr.pc # "idle"
    /\ pr.ready # <<>>
    /\ LET c == Head(pr.ready)
       IN MicStep(IF c.f = "put"
                  THEN [pr EXCEPT !.ready = Tail(@), !.q = Append(@, c.b)]
                  ELSE [pr EXCEPT !.ready = Tail(@), !.event = TRUE])

\* lines 58-59: event.wait() returns once the event is set; event.clear()
MicWakes ==
    /\ pr.pc = "wait"
    /\ pr.event
    /\ MicStep([pr EXCEPT !.pc = "drain", !.event = FALSE])

\* lines 60-63: the next block of the queue is yielded, or the queue is
\* empty and the generator sleeps
MicDrains ==
    /\ pr.pc = "drain"
    /\ MicStep(IF pr.q # <<>>
               THEN [pr EXCEPT !.pc = "yielded", !.q = Tail(@), !.got = Append(@, Head(pr.q))]
               ELSE [pr EXCEPT !.pc = "sleep"])

\* the consumer asks for the next chunk: the generator resumes after yield
ConsumerNext ==
    /\ pr.pc = "yielded"
    /\ MicStep([pr EXCEPT !.pc = "drain"])

\* the sleep of line 63 is over
MicSleepDone ==
    /\ pr.pc = "sleep"
    /\ MicStep([pr EXCEPT !.pc = "wait"])

(***************************************************************************)
(* AudioManager._screen_capture_stream_generator in detail (SpecLoop).     *)
(* The executor thread runs _record_loopback; the event loop runs the      *)
(* calls the thread hands over, in the order they were handed over, and    *)
(* the steps of the generator.                                             *)
(*   pc: "get"       suspended in "await q.get()"                          *)
(*       "yielded"   suspended at "yield chunk"                            *)
(*       "fin_sleep" in its finally, suspended in "await asyncio.sleep"    *)
(*       "shutdown"  in executor.shutdown(wait=True): the event loop's     *)
(*                   thread is blocked until the capture thread is over    *)
(*       "ended"     the generator has finished                            *)
(*   why: what made the generator enter its finally: "error" (raise chunk),*)
(*       "cancel" (CancelledError at q.get, swallowed), "close" (aclose at *)
(*       the yield)                                                        *)
(*   end: how it finished: "raised" (the error of the queue), "returned",  *)
(*       "closed", "aborted" (CancelledError raised inside the finally)    *)
(*   th: the capture thread: "find" (looking for a device), "open"         *)
(*       (entering the recorder), "top" (at the test of its while),        *)
(*       "rec" (inside recorder.record), "teardown" (its finally), "done"  *)
(*   out: why the thread left: "no_device", "open_failed",                 *)
(*       "record_raised", "stopped"                                        *)
(*   made: chunks the thread has completed                                 *)
(*   ready: the calls handed to the loop and not yet run: "chunk" and      *)
(*       "error" are q.put_nowait calls, "future" completes record_task    *)
(*   q: the asyncio.Queue; stop: stop_event; taskdone: record_task.done()  *)
(*   handle: active_streams holds the tag; exec: the executor              *)
(*   got: chunks yielded to the consumer                                   *)
(***************************************************************************)
\* A faulty variant of RecordErrorCalls: the exception is only logged.
RecordErrorCallsLogOnly(stopSet) == <<>>

\* lines 203-207: what the thread hands over when recorder.record raises
RecordErrorCalls(stopSet) == IF ~stopSet THEN <<"error">> ELSE <<>>

\* lines 217-219: the thread is submitted and the handle registered
LbNew ==
    [pc |-> "get", why |-> "-", end |-> "-", th |-> "find", out |-> "-",
     made |-> 0, ready |-> <<>>, q |-> <<>>, stop |-> FALSE, taskdone |-> FALSE,
     handle |-> TRUE, exec |-> "up", got |-> 0]

LbStep(p) ==
    /\ pr' = p
    /\ UNCHANGED <<engineVars, ev, ad, fg, ws>>

\* lines 120-158: the device search; without a device the error is handed
\* over and the thread returns
ThFind(found) ==
    /\ pr.pc # "idle"
    /\ pr.th = "find"
    /\ LbStep(IF found THEN [pr EXCEPT !.th = "open"]
              ELSE [pr EXCEPT !.th = "teardown", !.out = "no_device",
                              !.ready = Append(@, "error")])

\* lines 166-169, 209-211: the recorder is entered, or entering it raises
\* and the outer handler hands the error over
ThOpen(ok) ==
    /\ pr.pc # "idle"
    /\ pr.th = "open"
    /\ LbStep(IF ok THEN [pr EXCEPT !.th = "top"]
              ELSE [pr EXCEPT !.th = "teardown", !.out = "open_failed",
                              !.ready = Append(@, "error")])

\* line 170: the test of the record loop
ThTop ==
    /\ pr.pc # "idle"
    /\ pr.th = "top"
    /\ LbStep(IF pr.stop THEN [pr EXCEPT !.th = "teardown", !.out = "stopped"]
              ELSE [pr EXCEPT !.th = "rec"])

\* lines 173-201: record returns; full is whether the frames complete a
\* chunk, which is handed over unless the stop event is set
ThRecorded(full) ==
    /\ pr.pc # "idle"
    /\ pr.th = "rec"
    /\ full => pr.made < MaxBlocks
    /\ LbStep(IF full
              THEN [pr EXCEPT !.th = "top", !.made = @ + 1,
                              !.ready = IF pr.stop THEN @ ELSE Append(@, "chunk")]
              ELSE [pr EXCEPT !.th = "top"])

\* lines 203-207: record raises
ThRecordRaises ==
    /\ pr.pc # "idle"
    /\ pr.th = "rec"
    /\ LbStep([pr EXCEPT !.th = "teardown", !.out = "record_raised",
                         !.ready = @ \o RecordErrorCalls(pr.stop)])

\* lines 212-215: the thread's finally; the function returns and the
\* completion of record_task is handed to the loop
ThTeardown ==
    /\ pr.pc # "idle"
    /\ pr.th = "teardown"
    /\ LbStep([pr EXCEPT !.th = "done", !.ready = Append(@, "future")])

\* the event loop runs the oldest call handed over
LbLoopRuns ==
    /\ pr.pc \notin {"idle", "shutdown"}
    /\ pr.ready # <<>>
    /\ LET c == Head(pr.ready)
       IN LbStep(IF c = "future"
                 THEN [pr EXCEPT !.ready = Tail(@), !.taskdone = TRUE]
                 ELSE [pr EXCEPT !.ready = Tail(@), !.q = Append(@, c)])

\* lines 236-239: the finally is entered: the stop event is set, and the
\* generator sleeps unless record_task is done
EnterFinally(p, why) ==
    [p EXCEPT !.why = why, !.stop = TRUE,
              !.pc = IF p.taskdone THEN "shutdown" ELSE "fin_sleep"]

\* lines 224-232: q.get() returns the oldest item: a chunk is yielded, an
\* exception is raised
LbGet ==
    /\ pr.pc = "get"
    /\ pr.q # <<>>
    /\ LbStep(IF Head(pr.q) = "error"
              THEN EnterFinally([pr EXCEPT !.q = Tail(@)], "error")
              ELSE [pr EXCEPT !.q = Tail(@), !.pc = "yielded", !.got = @ + 1])

\* the consumer asks for the next chunk
LbConsumerNext ==
    /\ pr.pc = "yielded"
    /\ LbStep([pr EXCEPT !.pc = "get"])

\* the consumer has gone while the generator was suspended at its yield:
\* aclose() raises GeneratorExit there
LbClose ==
    /\ pr.pc = "yielded"
    /\ LbStep(EnterFinally(pr, "close"))

\* Task.cancel() on the pipeline task while the generator waits in q.get():
\* line 234 swallows the CancelledError
LbCancelAtGet ==
    /\ pr.pc = "get"
    /\ LbStep(EnterFinally(pr, "cancel"))

\* Task.cancel() on the pipeline task while the finally sleeps after a
\* producer error (the task is still registered, stop_transcription_stream
\* cancels it): CancelledError leaves the finally at line 239
LbCancelAtSleep ==
    /\ pr.pc = "fin_sleep"
    /\ pr.why = "error"
    /\ LbStep([pr EXCEPT !.pc = "ended", !.end = "aborted"])

\* line 239: the sleep is over
LbSleepDone ==
    /\ pr.pc = "fin_sleep"
    /\ LbStep([pr EXCEPT !.pc = "shutdown"])

\* lines 240-243: executor.shutdown(wait=True) returns once the thread is
\* over; the handle is deleted
LbShutdownDone ==
    /\ pr.pc = "shutdown"
    /\ pr.th = "done"
    /\ LbStep([pr EXCEPT !.pc = "ended", !.exec = "down", !.handle = FALSE,
                         !.end = CASE pr.why = "error" -> "raised"
                                   [] pr.why = "cancel" -> "returned"
                                   [] OTHER -> "closed"])

(***************************************************************************)
(* The re-chunking of _record_loopback in detail (SpecRechunk).  Captured  *)
(* samples are numbered from 1 in capture order; a run of consecutive      *)
(* samples is written [lo, n]: n samples starting at sample lo.            *)
(*   pc: "top"     at the test of "while not stop_event.is_set()"          *)
(*       "rec"     inside recorder.record                                  *)
(*       "drain"   at the test of "while len(audio_buffer) >= ..."         *)
(*       "exited"  the loop is left                                        *)
(*   recs: record calls made; captured: samples the calls have returned    *)
(*   buf: audio_buffer; sent: the chunks handed to the queue, each with    *)
(*       the length in bytes of its int16 data                             *)
(*   stop: stop_event; cut: chunks cut off in the current loop iteration   *)
(***************************************************************************)
MaxRecords == 3      \* record calls in one run

\* A faulty variant of RcDrain: one chunk at most is cut per record call.
RcDrainOnce ==
    /\ pr.pc = "drain"
    /\ pr' = IF pr.buf.n >= AUDIO_CHUNK_SIZE /\ pr.cut = 0
             THEN [pr EXCEPT !.buf = [lo |-> @.lo + AUDIO_CHUNK_SIZE, n |-> @.n - AUDIO_CHUNK_SIZE],
                             !.cut = 1,
                             !.sent = IF pr.stop THEN @
                                      ELSE Append(@, [lo |-> pr.buf.lo, n |-> AUDIO_CHUNK_SIZE,
                                                      bytes |-> 2 * AUDIO_CHUNK_SIZE])]
             ELSE [pr EXCEPT !.pc = "top"]
    /\ UNCHANGED <<engineVars, ev, ad, fg, ws>>

\* line 170: the test of the record loop
RcTop ==
    /\ pr.pc = "top"
    /\ pr.stop \/ pr.recs < MaxRecords
    /\ LbStep(IF pr.stop THEN [pr EXCEPT !.pc = "exited"]
              ELSE [pr EXCEPT !.pc = "rec", !.recs = @ + 1])

\* lines 173-185: record returns frames samples; a non-empty result is
\* appended to audio_buffer
RcRecorded(frames) ==
    /\ pr.pc = "rec"
    /\ LbStep(IF frames > 0
              THEN [pr EXCEPT !.pc = "drain", !.cut = 0, !.captured = @ + frames,
                              !.buf = [lo |-> @.lo, n |-> @.n + frames]]
              ELSE [pr EXCEPT !.pc = "top"])

\* lines 188-201: while a full chunk is buffered, the first
\* AUDIO_CHUNK_SIZE samples are cut off, converted to int16 (two bytes a
\* sample) and handed over unless the stop event is set
RcDrain ==
    /\ pr.pc = "drain"
    /\ LbStep(IF pr.buf.n >= AUDIO_CHUNK_SIZE
              THEN [pr EXCEPT !.buf = [lo |-> @.lo + AUDIO_CHUNK_SIZE, n |-> @.n - AUDIO_CHUNK_SIZE],
                              !.cut = @ + 1,
                              !.sent = IF pr.stop THEN @
                                       ELSE Append(@, [lo |-> pr.buf.lo, n |-> AUDIO_CHUNK_SIZE,
                                                       bytes |-> 2 * AUDIO_CHUNK_SIZE])]
              ELSE [pr EXCEPT !.pc = "top"])

\* line 237: the generator's finally sets the stop event
RcStop ==
    /\ pr.pc \in {"top", "rec", "drain"}
    /\ ~pr.stop
    /\ LbStep([pr EXCEPT !.stop = TRUE])

(***************************************************************************)
(* Specifications of the engine.                                           *)
(***************************************************************************)
AdIdle == [pc |-> "idle"]
FgIdle == [pc |-> "idle"]
WsIdle == [pc |-> "idle"]
PrIdle == [pc |-> "idle"]

\* TranscriptionEngine.__init__, AudioManager.__init__
InitEngine ==
    /\ current_model = 0
    /\ inst = [i \in InstIds |-> FreeInst]
    /\ tasks = [k \in TaskIds |-> FreeTask]
    /\ transcription_tasks = [t \in Tags |-> 0]
    /\ active_streams = [t \in Tags |-> 0]
    /\ stops = {}

Init ==
    /\ InitEngine
    /\ ev = Ev("init", "-", "-", 0)
    /\ ad = AdIdle
    /\ fg = FgIdle
    /\ ws = WsIdle
    /\ pr = PrIdle

StartArgs == {<<"microphone", "none">>, <<"screen", "none">>, <<"other", "none">>,
              <<"file", "none">>, <<"file", "missing">>, <<"file", "badfmt">>, <<"file", "ok">>}

\* load_transcription_model calls that are suspended in load_model
LoadsInFlight == Cardinality({i \in InstIds : inst[i].st \in {"loading", "ready", "failed"}})

\* pipeline tasks that exist
Pipelines == Cardinality({k \in TaskIds : tasks[k].pc # "free"})

\* The steps of model loading when load_transcription_model is called while
\* fewer than L calls of it are suspended.
LoadNext(L) ==
    \/ \E key \in Keys, opt \in Opts : LoadsInFlight < L /\ LoadModel(key, opt)
    \/ \E i \in InstIds, ok \in BOOLEAN : LoadThreadDone(i, ok)
    \/ \E i \in InstIds : LoadResume(i)

\* The steps the pipeline tasks and their producers take by themselves.
PipelineNext ==
    \/ \E k \in TaskIds, devOk \in BOOLEAN : TaskFirstStep(k, devOk)
    \/ \E k \in TaskIds, reached \in BOOLEAN : ChunkArrives(k, reached)
    \/ \E k \in TaskIds, ok \in BOOLEAN : TranscribeDone(k, ok)
    \/ \E k \in TaskIds : SourceEnds(k)
    \/ \E k \in TaskIds, ok \in BOOLEAN : TailDone(k, ok)
    \/ \E k \in TaskIds, threadDone \in BOOLEAN : ProducerError(k, threadDone)
    \/ \E k \in TaskIds, threadDone \in BOOLEAN : CancelDelivered(k, threadDone)
    \/ \E k \in TaskIds : CleanupDone(k)
    \/ \E k \in TaskIds, threadDone \in BOOLEAN : Finalize(k, threadDone)

\* The steps of the pipelines when the callers use the tags TS and call
\* start_transcription_stream while fewer than P pipeline tasks exist.
StreamNext(TS, P) ==
    \/ \E a \in StartArgs, tag \in TS :
          Pipelines < P /\ StartTranscription(a[1], tag, a[2]) /\ UNCHANGED ws
    \/ \E tag \in TS : StopTranscription(tag) /\ UNCHANGED ws
    \/ \E k \in TaskIds : StopReturn(k) /\ UNCHANGED ws
    \/ PipelineNext

\* The engine with overlapping pipelines on one tag; the model is loaded and
\* replaced by one call at a time.
Next ==
    \/ LoadNext(1)
    \/ StreamNext({"t1"}, MaxTasks)

Spec == Init /\ [][Next]_vars

\* The engine with overlapping load_transcription_model calls and one
\* pipeline at a time.
NextLoad ==
    \/ LoadNext(MaxInst)
    \/ \E i \in InstIds : Collect(i)
    \/ StreamNext({"t1"}, 1)

SpecLoad == Init /\ [][NextLoad]_vars

\* The engine with one pipeline at a time on any tag, and direct calls of
\* the AudioManager API.
NextAM ==
    \/ LoadNext(1)
    \/ StreamNext(Tags, 1)
    \/ \E a \in StartArgs, tag \in Tags : AMStartStream(a[1], tag, a[2])
    \/ \E tag \in Tags : AMStopStream(tag)

SpecAM == Init /\ [][NextAM]_vars

\* One run of transcribe_stream: a stub capability with a fixed offset, or a
\* capability that returns any result and may raise.
StubOffsets == {0, 16000}

InitAdapter ==
    /\ InitEngine
    /\ ev = Ev("init", "-", "-", 0)
    /\ fg = FgIdle
    /\ ws = WsIdle
    /\ pr = PrIdle
    /\ ad \in {AdNew("stub", off, TRUE) : off \in StubOffsets}
              \cup {AdNew("free", 0, loaded) : loaded \in BOOLEAN}

NextAdapter ==
    \/ AdStart
    \/ \E len \in {ChunkBytes} \cup ShortLens : AdChunk(len)
    \/ \E ok \in BOOLEAN, result \in Results(ad.cap, ad.off, Span(ad.last, ad.tell)) :
          (ok \/ ad.cap = "free") /\ AdTranscribed(ok, result)
    \/ AdSourceEnds
    \/ \E ok \in BOOLEAN, result \in Results(ad.cap, ad.off, Span(ad.last, ad.tell)) :
          (ok \/ ad.cap = "free") /\ AdTailDone(ok, result)

SpecAdapter == InitAdapter /\ [][NextAdapter]_vars

\* the start requests of the connection: a live source of each kind, and a
\* file source without a path
WsStartArgs == {<<"microphone", "none">>, <<"screen", "none">>, <<"file", "ok">>, <<"file", "none">>}

\* The engine behind one WebSocket connection at a time on tag t1; the model
\* is loaded and replaced under its registered key.
NextWs ==
    \/ \E opt \in Opts : LoadsInFlight < 1 /\ LoadModel("whisper_model", opt)
    \/ \E i \in InstIds, ok \in BOOLEAN : LoadThreadDone(i, ok)
    \/ \E i \in InstIds : LoadResume(i)
    \/ PipelineNext
    \/ WsAccept("t1")
    \/ \E a \in WsStartArgs : WsInitialStart(a[1], a[2])
    \/ WsInitialStop
    \/ \E why \in {"error", "disconnect"} : WsInitialFails(why)
    \/ \E outcome \in SendOutcomes : WsSendStarted(outcome)
    \/ WsLoopStop
    \/ WsLoopStays
    \/ \E why \in {"error", "disconnect"} : WsLoopBreaks(why)
    \/ WsStopReturn
    \/ WsSendStopped
    \/ WsSendError
    \/ WsClose

SpecWs == Init /\ [][NextWs]_vars

\* The same with a second connection on tag t1 that has sent a start
\* request for the microphone and is waiting in its loop: its start is a
\* call of start_transcription_stream that the handler ws does not make.
NextWsShared ==
    \/ NextWs
    \/ StartTranscription("microphone", "t1", "none") /\ UNCHANGED ws

SpecWsShared == Init /\ [][NextWsShared]_vars

\* One run of the delivery loop over one run of transcribe_stream, with the
\* sink of main.py or with a callback that raises.
InitSink ==
    /\ InitEngine
    /\ ev = Ev("init", "-", "-", 0)
    /\ fg = FgIdle
    /\ ad \in {AdNew("stub", 0, loaded) : loaded \in BOOLEAN}
    /\ ws \in {SinkNew(sink) : sink \in {"websocket", "callback"}}
    /\ pr = PrIdle

NextSink ==
    \/ Iterating /\ AdStart
    \/ \E len \in {ChunkBytes} \cup ShortLens : Iterating /\ AdChunk(len)
    \/ \E ok \in BOOLEAN, result \in Results(ad.cap, ad.off, Span(ad.last, ad.tell)) :
          Iterating /\ (ok \/ ad.cap = "free") /\ AdTranscribed(ok, result)
    \/ Iterating /\ AdSourceEnds
    \/ \E ok \in BOOLEAN, result \in Results(ad.cap, ad.off, Span(ad.last, ad.tell)) :
          Iterating /\ (ok \/ ad.cap = "free") /\ AdTailDone(ok, result)
    \/ \E outcome \in SendOutcomes : Deliver(outcome)
    \/ LoopExits

SpecSink == InitSink /\ [][NextSink]_vars

\* One run of the microphone producer with an open input stream.
InitMic ==
    /\ InitEngine
    /\ ev = Ev("init", "-", "-", 0)
    /\ ad = AdIdle
    /\ fg = FgIdle
    /\ ws = WsIdle
    /\ pr = MicNew

NextMic ==
    \/ CallbackStarts
    \/ CallbackEnds
    \/ LoopRuns
    \/ MicWakes
    \/ MicDrains
    \/ ConsumerNext
    \/ MicSleepDone

\* a callback that has started runs to its end, the event loop keeps
\* running and the consumer keeps iterating
SpecMic ==
    /\ InitMic
    /\ [][NextMic]_vars
    /\ WF_vars(CallbackEnds)
    /\ WF_vars(LoopRuns)
    /\ WF_vars(MicWakes)
    /\ WF_vars(MicDrains)
    /\ WF_vars(ConsumerNext)
    /\ WF_vars(MicSleepDone)

\* One run of the loopback producer from the registration of its handle.
InitLoop ==
    /\ InitEngine
    /\ ev = Ev("init", "-", "-", 0)
    /\ ad = AdIdle
    /\ fg = FgIdle
    /\ ws = WsIdle
    /\ pr = LbNew

ThreadNext ==
    \/ \E found \in BOOLEAN : ThFind(found)
    \/ \E ok \in BOOLEAN : ThOpen(ok)
    \/ ThTop
    \/ \E full \in BOOLEAN : ThRecorded(full)
    \/ ThRecordRaises
    \/ ThTeardown

\* the consumer asks for the next chunk, or it has gone
ConsumerMoves == LbConsumerNext \/ LbClose

NextLoop ==
    \/ ThreadNext
    \/ LbLoopRuns
    \/ LbGet
    \/ LbConsumerNext
    \/ LbClose
    \/ LbCancelAtGet
    \/ LbCancelAtSleep
    \/ LbSleepDone
    \/ LbShutdownDone

\* the thread keeps running (a record call returns or raises), the event
\* loop keeps running, a consumer that holds a chunk asks for the next one
\* or is finalized
SpecLoop ==
    /\ InitLoop
    /\ [][NextLoop]_vars
    /\ WF_vars(ThreadNext)
    /\ WF_vars(LbLoopRuns)
    /\ WF_vars(LbGet)
    /\ WF_vars(ConsumerMoves)
    /\ WF_vars(LbSleepDone)
    /\ WF_vars(LbShutdownDone)

\* One run of the record loop of the capture thread, from line 163.
InitRechunk ==
    /\ InitEngine
    /\ ev = Ev("init", "-", "-", 0)
    /\ ad = AdIdle
    /\ fg = FgIdle
    /\ ws = WsIdle
    /\ pr = [pc |-> "top", recs |-> 0, captured |-> 0, buf |-> [lo |-> 1, n |-> 0],
             cut |-> 0, sent |-> <<>>, stop |-> FALSE]

\* record is asked for AUDIO_CHUNK_SIZE \div 4 frames; any count is taken
NextRechunk ==
    \/ RcTop
    \/ \E frames \in {0, 100, AUDIO_CHUNK_SIZE \div 4, AUDIO_CHUNK_SIZE, 2 * AUDIO_CHUNK_SIZE + 256} :
          RcRecorded(frames)
    \/ RcDrain
    \/ RcStop

SpecRechunk == InitRechunk /\ [][NextRechunk]_vars

\* The engine with two pipelines at a time on any tags, from the loopback
\* source or a valid file; the model is loaded under its registered key, and
\* loaded again after a failed load, one call at a time.
NextTags ==
    \/ LoadsInFlight < 1 /\ LoadModel("whisper_model", "base")
    \/ \E i \in InstIds, ok \in BOOLEAN : LoadThreadDone(i, ok)
    \/ \E i \in InstIds : LoadResume(i)
    \/ \E a \in {<<"screen", "none">>, <<"file", "ok">>}, tag \in Tags :
          Pipelines < 2 /\ StartTranscription(a[1], tag, a[2]) /\ UNCHANGED ws
    \/ \E tag \in Tags : StopTranscription(tag) /\ UNCHANGED ws
    \/ \E k \in TaskIds : StopReturn(k) /\ UNCHANGED ws
    \/ PipelineNext

SpecTags == Init /\ [][NextTags]_vars

\* The engine with two pipelines at a time on tag t1, from the loopback
\* source or a valid file, and direct calls of AudioManager.stop_stream; the
\* model is loaded as in SpecTags.
NextHandle ==
    \/ LoadsInFlight < 1 /\ LoadModel("whisper_model", "base")
    \/ \E i \in InstIds, ok \in BOOLEAN : LoadThreadDone(i, ok)
    \/ \E i \in InstIds : LoadResume(i)
    \/ \E a \in {<<"screen", "none">>, <<"file", "ok">>} :
          Pipelines < 2 /\ StartTranscription(a[1], "t1", a[2]) /\ UNCHANGED ws
    \/ StopTranscription("t1") /\ UNCHANGED ws
    \/ \E k \in TaskIds : StopReturn(k) /\ UNCHANGED ws
    \/ AMStopStream("t1")
    \/ PipelineNext

SpecHandle == Init /\ [][NextHandle]_vars

\* One run of the file producer on a file of any format.
InitFile ==
    /\ InitEngine
    /\ ev = Ev("init", "-", "-", 0)
    /\ ad = AdIdle
    /\ ws = WsIdle
    /\ pr = PrIdle
    /\ fg \in {FgNew(e, w, c, sw, r, n) :
                  e \in BOOLEAN, w \in BOOLEAN, c \in {1, 2}, sw \in {1, 2, 4},
                  r \in {8000, AUDIO_SAMPLE_RATE, 44100},
                  n \in {0, 1, AUDIO_CHUNK_SIZE, AUDIO_CHUNK_SIZE + 1, MaxFrames}}

NextFile ==
    \/ FgOpen
    \/ FgNextChunk

SpecFile == InitFile /\ [][NextFile]_vars

(***************************************************************************)
(* Properties.                                                             *)
(***************************************************************************)

\* C1 (SpecAM): stop_transcription_stream(tag) for a tag without a task and
\* AudioManager.stop_stream(tag) for a tag without a handle return "not
\* found" without raising and change neither the two dicts, nor any pipeline
\* task, nor the model.
C1_StopInactiveIsNoOp ==
    [][/\ (ev'.op = "stop_transcription_stream" /\ transcription_tasks[ev'.tag] = 0)
             => (ev'.res = "not_found" /\ UNCHANGED engineVars)
       /\ (ev'.op = "stop_stream" /\ active_streams[ev'.tag] = 0)
             => (ev'.res = "not_found" /\ UNCHANGED engineVars)]_vars

\* a stop on an inactive tag has returned while a pipeline runs on another
\* tag, a producer handle is registered and a model is loaded
C1_Witness ==
    /\ ev.op = "stop_transcription_stream"
    /\ ev.res = "not_found"
    /\ current_model # 0 /\ IsLoaded(current_model)
    /\ \E k \in TaskIds : tasks[k].pc = "wait_transcribe" /\ tasks[k].tag # ev.tag
    /\ \E t \in Tags : active_streams[t] # 0

\* a pipeline task that has started, has not finished and has no
\* cancellation waiting for it
Running(k) ==
    /\ tasks[k].pc \in {"wait_chunk", "wait_transcribe", "wait_tail", "cleanup_cancel", "cleanup_error"}
    /\ ~tasks[k].cancel

\* C2 (Spec): at most one pipeline is running for a tag at any time.
C2_OnePipelinePerTag ==
    \A t \in Tags : Cardinality({k \in TaskIds : tasks[k].tag = t /\ Running(k)}) <= 1

\* C3 (Spec): when stop_transcription_stream returns for a pipeline that was
\* waiting for a chunk or for a transcription result, the tag's entries of
\* that pipeline are gone from transcription_tasks and from active_streams.
C3_AbsentAtStopReturn ==
    (ev.op = "stop_return" /\ ev.res \in {"wait_chunk", "wait_transcribe"})
        => (transcription_tasks[ev.tag] # ev.task /\ active_streams[ev.tag] # ev.task)

\* C4 (SpecLoad): the weights of at most one model instance are in memory.
C4_NeverTwoResident == Cardinality({i \in InstIds : Resident(i)}) <= 1

\* C5 (SpecAdapter): the start values of the emitted segments are
\* non-decreasing over the whole run: across windows, failed windows and
\* the tail flush.
C5_StartsNonDecreasing ==
    ad.pc # "idle" =>
        \A j \in 1..(Len(ad.segs) - 1) : ad.segs[j].start <= ad.segs[j + 1].start

\* a finished run with a failed window, two transcribed windows and a tail
C5_Witness ==
    /\ ad.pc = "done"
    /\ ad.cap = "free"
    /\ ad.fails > 0
    /\ ad.win = 3
    /\ Len(ad.segs) >= 4
    /\ ad.segs[1].start < ad.segs[Len(ad.segs)].start

\* the chunks that make one window: the first count that reaches the threshold
WindowChunks == (ThresholdBytes + ChunkBytes - 1) \div ChunkBytes

WindowBytes == WindowChunks * ChunkBytes

\* C6 (SpecAdapter), as the code has it: with the stub capability the
\* segment of window i starts at i * WindowBytes + local offset, where a
\* window is 79 chunks (5.056 s), not 5 s.
C6_StartIsWindowTimesSpan ==
    (ad.pc # "idle" /\ ad.cap = "stub") =>
        \A j \in 1..Len(ad.segs) :
            ad.segs[j].start = ad.segs[j].i * WindowBytes + ad.segs[j].local

\* the stub's segments of windows 0, 1 and 2 have been emitted
C6_Witness ==
    /\ ad.pc = "done"
    /\ ad.cap = "stub"
    /\ ad.off > 0
    /\ ~ad.short
    /\ Len(ad.segs) = 3
    /\ ad.segs[3].i = 2

\* C6 as stated: the segment of window i starts at i * W + local offset
\* with W = 5 seconds.
C6_StartIsWindowTimesW ==
    (ad.pc # "idle" /\ ad.cap = "stub" /\ ~ad.short) =>
        \A j \in 1..Len(ad.segs) :
            ad.segs[j].start = ad.segs[j].i * ThresholdBytes + ad.segs[j].local

\* ceil(a / b) for b > 0
CeilDiv(a, b) == (a + b - 1) \div b

\* C7 (SpecAdapter), as the code has it: for K full-size chunks, the last
\* one possibly shorter, and a capability that does not fail, transcribe is
\* invoked ceil(K / 79) times, in-loop windows plus tail flush, and every
\* invocation, the remainder's included, yields its segment.
C7_CallsAreCeilOfChunks ==
    (ad.pc = "done" /\ ad.cap = "stub") =>
        /\ ad.calls = CeilDiv(ad.chunks, WindowChunks)
        /\ Len(ad.segs) = ad.calls
        /\ ad.last < ad.tell => ad.segs[Len(ad.segs)].start = ad.last + ad.off

\* a finished run whose length is not a whole number of windows: two in-loop
\* windows and the tail flush
C7_Witness ==
    /\ ad.pc = "done"
    /\ ad.cap = "stub"
    /\ ad.chunks % WindowChunks # 0
    /\ ad.calls = 3
    /\ ad.last < ad.tell

\* C7 as stated: when the total duration is not a multiple of W the
\* capability is invoked ceil(total / W) times.
C7_CallsAreCeilOfDuration ==
    (ad.pc = "done" /\ ad.cap = "stub" /\ ad.tell % ThresholdBytes # 0) =>
        ad.calls = CeilDiv(ad.tell, ThresholdBytes)

\* C8 (SpecFile): the file producer yields no chunk for a file that is not
\* mono, not 16 bit or not at 16000 Hz; for a readable WAV file it ends
\* with the validation error.
C8_NoChunkForBadFormat ==
    (fg.pc # "idle" /\ (fg.channels # 1 \/ fg.sampwidth # 2 \/ fg.framerate # 16000)) =>
        /\ fg.yielded = 0
        /\ fg.pc \in {"new", "not_found", "open_error", "bad_format"}
        /\ (fg.exists /\ fg.wav /\ fg.pc # "new") => fg.pc = "bad_format"

\* a mono 16-bit file at 44100 Hz with frames in it has been rejected
C8_Witness ==
    /\ fg.pc = "bad_format"
    /\ fg.channels = 1 /\ fg.sampwidth = 2 /\ fg.framerate = 44100
    /\ fg.nframes > 0

\* C9 (Spec): a start_transcription_stream call whose file cannot be opened
\* does not return normally with a task created.
C9_StartRaisesOnOpenError ==
    (ev.op = "start_transcription_stream" /\ ev.res = "started") =>
        ~(tasks[ev.task].src = "file" /\ tasks[ev.task].path \in {"missing", "badfmt"})

\* C10 (SpecLoad): start_transcription_stream for a tag without a task raises
\* when current_model is None or not loaded, a load in progress included,
\* and then changes neither the dicts nor any task.
C10_StartNeedsLoadedModel ==
    [][(/\ ev'.op = "start_transcription_stream"
        /\ transcription_tasks[ev'.tag] = 0
        /\ (current_model = 0 \/ inst[current_model].st # "loaded"))
          => (ev'.res = "raised_no_model" /\ UNCHANGED engineVars)]_vars

\* start has raised while load_model is suspended in its worker thread
C10_Witness ==
    /\ ev.op = "start_transcription_stream"
    /\ ev.res = "raised_no_model"
    /\ current_model # 0
    /\ inst[current_model].st = "loading"

\* C11 (Spec): when start_transcription_stream has raised, the tag is in
\* neither transcription_tasks nor active_streams.  Stated for the calls made
\* while no stop call is waiting and no pipeline task of the tag is running.
C11_NothingLeftAfterRaise ==
    (/\ ev.op = "start_transcription_stream"
     /\ ev.res \in {"raised", "raised_no_model"}
     /\ stops = {}
     /\ \A k \in TaskIds : tasks[k].tag = ev.tag => tasks[k].pc = "done")
        => (transcription_tasks[ev.tag] = 0 /\ active_streams[ev.tag] = 0)

\* C12 (Spec): load_transcription_model(key, options) for a registered key,
\* called while a model of the same size is loaded, changes nothing: no
\* unload, no new instance, current_model as before.
C12_SameConfigIsNoOp ==
    [][\A key \in Registered, opt \in Opts :
          (/\ LoadModel(key, opt)
           /\ current_model # 0
           /\ IsLoaded(current_model)
           /\ inst[current_model].size = SizeOrDefault(opt))
             => UNCHANGED engineVars]_vars

\* C13 (SpecLoad): a load_transcription_model call that fails, by an
\* unknown key or by load_model raising, raises, and when it has raised
\* current_model is None and the instance that failed holds no model.
C13_FailedLoadLeavesNone ==
    [][/\ \A key \in Keys \ Registered, opt \in Opts :
             (LoadModel(key, opt) /\ ~AlreadyLoaded(key, opt))
                => (ev'.res = "raised" /\ current_model' = 0)
       /\ \A i \in InstIds :
             (inst[i].st = "failed" /\ ev'.op = "load_return" /\ ev'.task = i)
                => (ev'.res = "raised" /\ current_model' = 0 /\ ~Resident(i)')
       /\ (ev'.op \in {"load_transcription_model", "load_return"} /\ ev'.res = "raised")
             => current_model' = 0]_vars

\* a load has failed in load_model after it had replaced a loaded model, to
\* which a running pipeline is still bound
C13_Witness ==
    /\ ev.op = "load_return"
    /\ ev.res = "raised"
    /\ current_model = 0
    /\ \E k \in TaskIds : tasks[k].pc = "wait_chunk" /\ tasks[k].model # 0
                          /\ inst[tasks[k].model].st = "unloaded"

\* C14 (SpecAM): stop_transcription_stream(tag) for a tag whose task has
\* already finished by itself returns at once, without raising, and the tag
\* is no longer in transcription_tasks.
C14_StopAfterFinish ==
    [][\A t \in Tags :
          (/\ ev'.op = "stop_transcription_stream"
           /\ ev'.tag = t
           /\ transcription_tasks[t] # 0
           /\ tasks[transcription_tasks[t]].pc = "done")
             => (/\ ev'.res = "returned"
                 /\ transcription_tasks'[t] = 0
                 /\ stops' = stops)]_vars

\* a stop has returned at once while the model is loaded and nothing runs
C14_Witness ==
    /\ ev.op = "stop_transcription_stream"
    /\ ev.res = "returned"
    /\ ev.task # 0
    /\ transcription_tasks[ev.tag] = 0
    /\ active_streams[ev.tag] = 0
    /\ stops = {}

\* C15 (Spec): when stop_transcription_stream(tag) returns for a pipeline it
\* has cancelled and awaited, AudioManager.stop_stream(tag) has been executed
\* for the pipeline's producer: its handle is out of active_streams.
C15_ProducerStoppedAtReturn ==
    ev.op = "stop_return" => active_streams[ev.tag] # ev.task

\* C16 (Spec): a pipeline that has terminated on its own is no longer in the
\* engine's active set: no tag of transcription_tasks holds a finished task.
C16_FinishedTagLeaves ==
    \A t \in Tags :
        transcription_tasks[t] # 0 => tasks[transcription_tasks[t]].pc # "done"

\* a producer of tag t is running: its generator body has started and has
\* not been closed, and its stop event is not set
ProducerRunning(t) ==
    \E k \in TaskIds : tasks[k].tag = t /\ tasks[k].gen \in {"open", "orphan"}

\* C17 (SpecAM): active_streams holds a tag exactly when a producer of the
\* tag is running, whatever the source.
C17_HandleIffProducer ==
    \A t \in Tags : active_streams[t] # 0 <=> ProducerRunning(t)

\* C18 (SpecAM): AudioManager.start_stream for a tag whose producer is
\* running hands out no new chunk sequence.
C18_NoSecondProducer ==
    (ev.op = "start_stream" /\ ProducerRunning(ev.tag)) => ev.res = "none"

\* C19 (Spec): while stop_transcription_stream(tag) is waiting for the old
\* pipeline, a pipeline registered by a new start for the tag has a producer,
\* and its producer does not run together with the old one.
C19_StartWaitsForStop ==
    \A j \in stops :
        LET k == transcription_tasks[tasks[j].tag]
        IN k # 0 => /\ tasks[k].gen # "none"
                    /\ ~(tasks[k].gen = "open" /\ tasks[j].gen \in {"open", "orphan"})

\* C20 (SpecAdapter): a window whose transcribe call raises leaves the
\* adapter in its chunk loop with the buffer, the origin and the emitted
\* segments as they were; after a failure a chunk that reaches the threshold
\* is dispatched, the rest of the buffer is flushed when the source ends, and
\* a call that returns appends its segments.
C20_FailureKeepsPipeline ==
    [][/\ (ad.pc = "transcribe" /\ ad'.fails > ad.fails)
            => (/\ ad'.pc = "loop"
                /\ ad'.segs = ad.segs
                /\ ad'.last = ad.last
                /\ ad'.tell = ad.tell)
       /\ (/\ ad.pc = "loop" /\ ad.fails > 0 /\ ad'.tell > ad.tell
           /\ Reached(ad.last, ad'.tell) /\ SpanOk(Span(ad.last, ad'.tell)))
            => (ad'.pc = "transcribe" /\ ad'.calls = ad.calls + 1)
       /\ (/\ ad.pc = "loop" /\ ad.fails > 0 /\ ad'.pc = "done")
            => (Span(ad.last, ad.tell) = 0 \/ ~SpanOk(Span(ad.last, ad.tell)))
       /\ (/\ ad.pc \in {"transcribe", "tail"} /\ ad.fails > 0 /\ ad'.fails = ad.fails)
            => \E result \in Results(ad.cap, ad.off, Span(ad.last, ad.tell)) :
                  ad'.segs = ad.segs \o Emit(result, ad.last, ad.win)]_vars

\* the window of chunk 79 failed, the call at chunk 80 returned and its
\* segment was emitted; a later tail flush emitted too
C20_Witness ==
    /\ ad.pc = "done"
    /\ ad.fails > 0
    /\ \E j \in 1..Len(ad.segs) : ad.segs[j].i = 0 /\ ad.segs[j].start = 80 * ChunkBytes
    /\ \E j \in 1..Len(ad.segs) : ad.segs[j].i = 1


\* C21 (SpecAdapter): when the transcribe call of a window raises, the origin
\* advances to the end of the failed span.
C21_OriginAdvancesOnFailure ==
    [][(ad.pc = "transcribe" /\ ad'.fails > ad.fails) => ad'.last = ad.tell]_vars

\* C22 (SpecSink): when the output callback raises while a segment is
\* delivered, the delivery loop goes on with the next segment.
C22_RaisingSinkKeepsPipeline ==
    [][(ws.pc = "iterate" /\ ws'.lost > ws.lost /\ OutputCallback(ws.sink, "error") = "raised")
          => ws'.pc = "iterate"]_vars

\* C23 (SpecWs): when the handler leaves on a disconnect while the tag has a
\* pipeline, it calls stop_transcription_stream just as on a stop message:
\* the tag leaves transcription_tasks and a task still alive is cancelled and
\* awaited; on every exit path the handler reaches websocket.close() only
\* with the tag absent and every task of the tag finished.
C23_DisconnectStopsLikeStop ==
    [][/\ (/\ ws.pc \in {"send_started", "loop"}
           /\ ws'.why \in {"disconnect", "stop"}
           /\ transcription_tasks[ws.tag] # 0)
            => LET k == transcription_tasks[ws.tag]
               IN /\ ev'.op = "stop_transcription_stream"
                  /\ transcription_tasks'[ws.tag] = 0
                  /\ \/ tasks[k].pc = "done" /\ ev'.res = "returned"
                     \/ /\ tasks'[k].cancel
                        /\ k \in stops'
                        /\ ws'.pc = "await_stop"
                        /\ ws'.await = k
       /\ ws'.pc \in {"close", "closed"}
            => /\ transcription_tasks'[ws'.tag] = 0
               /\ \A k \in TaskIds : tasks'[k].tag = ws'.tag => tasks'[k].pc = "done"]_vars

\* the handler left on a disconnect, and the stop it awaited has returned
\* for a pipeline that was waiting for a chunk
C23_Witness ==
    /\ ws.pc = "close"
    /\ ws.why = "disconnect"
    /\ ev.op = "stop_return"
    /\ ev.res = "wait_chunk"
    /\ transcription_tasks[ws.tag] = 0

\* C24 (SpecAdapter): the segments a window or the tail flush emits are the
\* returned ones in the returned order, each with start = local start +
\* origin and end = local end + origin, the origin being the number of bytes
\* dispatched in the earlier calls that returned.
C24_SegmentsShiftedByOrigin ==
    [][(ad.pc \in {"transcribe", "tail"} /\ ad'.win > ad.win)
          => \E result \in Results(ad.cap, ad.off, Span(ad.last, ad.tell)) :
                /\ Len(ad'.segs) = Len(ad.segs) + Len(result)
                /\ \A j \in 1..Len(ad.segs) : ad'.segs[j] = ad.segs[j]
                /\ \A j \in 1..Len(result) :
                      LET seg == ad'.segs[Len(ad.segs) + j]
                      IN /\ seg.local = result[j]
                         /\ seg.start = result[j] + ad.sent
                         /\ seg.end = LocalEnd(result[j]) + ad.sent]_vars

\* after a failed window, a later window has emitted two segments with
\* different local starts at an origin above zero
C24_Witness ==
    /\ ad.pc \in {"loop", "done"}
    /\ ad.fails > 0
    /\ \E j \in 1..(Len(ad.segs) - 1) :
          /\ ad.segs[j].i = 1
          /\ ad.segs[j + 1].i = 1
          /\ ad.segs[j].local = 0
          /\ ad.segs[j + 1].local > 0
          /\ ad.segs[j].start > 0

\* C25 (SpecAdapter): with a capability that never fails, a chunk leads to a
\* dispatch exactly when the bytes since the origin have reached
\* ThresholdBytes, and the dispatched spans follow one another without gap
\* or overlap: the bytes dispatched so far are the bytes up to the origin,
\* and all bytes of the stream once the run is done.
C25_DispatchAtThreshold ==
    [][ad.cap = "stub" =>
          /\ (ad.pc = "loop" /\ ad'.tell > ad.tell)
                => (ad'.pc = "transcribe" <=> Span(ad.last, ad'.tell) >= ThresholdBytes)
          /\ ad'.sent = ad'.last \/ (ad'.pc = "done" /\ ad'.sent = ad'.tell)]_vars

\* audio_buffer is written at line 115 and never truncated: it holds every
\* byte received, and audio_buffer.tell() is their count
BufferBytes == ad.tell

\* C26 (SpecAdapter): the buffer never holds more than W seconds of audio
\* plus one chunk, here in the runs where no transcribe call failed.
C26_BufferBounded ==
    (ad.pc \notin {"idle", "new", "raised"} /\ ad.fails = 0)
        => BufferBytes <= ThresholdBytes + ChunkBytes

\* C27 (SpecAdapter): when the source ends, the bytes after the origin are
\* dispatched in one call if there are any, however few, and the segments of
\* that call are shifted by the origin; no call is made when nothing remains,
\* and none after the tail flush.
C27_TailFlushOnce ==
    [][/\ (ad.pc = "loop" /\ ad'.pc \in {"tail", "done"})
            => IF Span(ad.last, ad.tell) > 0 /\ SpanOk(Span(ad.last, ad.tell))
               THEN ad'.pc = "tail" /\ ad'.calls = ad.calls + 1
               ELSE ad'.pc = "done" /\ ad'.calls = ad.calls
       /\ ad.pc = "tail"
            => /\ ad'.pc = "done"
               /\ ad'.calls = ad.calls
               /\ ad'.win > ad.win
                    => \E result \in Results(ad.cap, ad.off, Span(ad.last, ad.tell)) :
                          ad'.segs = ad.segs \o
                             [j \in 1..Len(result) |->
                                 [i |-> ad.win, local |-> result[j],
                                  start |-> result[j] + ad.last,
                                  end |-> LocalEnd(result[j]) + ad.last]]]_vars

\* a finished run whose tail, shorter than the threshold, was dispatched
\* after one window and gave a segment shifted by the origin
C27_Witness ==
    /\ ad.pc = "done"
    /\ ad.cap = "stub"
    /\ ad.off > 0
    /\ ad.last = WindowBytes
    /\ ad.tell - ad.last \in 1..(ThresholdBytes - 1)
    /\ ad.calls = 2
    /\ Len(ad.segs) = 2
    /\ ad.segs[2].start = ad.off + ad.last

\* the numbers lo..hi in order
Run(lo, hi) == [j \in 1..(hi - lo + 1) |-> lo + j - 1]

\* the blocks of the put calls in a sequence of handed-over calls
PutBlocks(calls) ==
    LET puts == SelectSeq(calls, LAMBDA c : c.f = "put")
    IN [j \in 1..Len(puts) |-> puts[j].b]

\* C28 (SpecMic): callback can always take its next step, whatever the
\* queue and the generator are doing; the blocks yielded, queued and handed
\* over are at every moment the blocks of the callbacks so far, each once
\* and in callback order; and while the loop runs and the consumer keeps iterating every
\* block handed over is yielded: no block stays in the queue with the
\* generator waiting on a cleared event.
C28_NoLostWakeup ==
    /\ []((pr.cb = 1 => ENABLED CallbackEnds)
            /\ ((pr.cb = 0 /\ pr.hw < MaxBlocks) => ENABLED CallbackStarts))
    /\ [](pr.got \o pr.q \o PutBlocks(pr.ready) = Run(1, pr.hw))
    /\ \A b \in 1..MaxBlocks : (pr.hw >= b) ~> (Len(pr.got) >= b)

\* every block has been yielded in order and the generator waits again on
\* the cleared event with nothing left to run
C28_Witness ==
    /\ pr.pc = "wait"
    /\ pr.got = Run(1, MaxBlocks)
    /\ ~pr.event
    /\ pr.ready = <<>>


\* an exception of the capture thread is on its way to the generator
ErrorHandedOver ==
    \/ \E i \in 1..Len(pr.ready) : pr.ready[i] = "error"
    \/ \E i \in 1..Len(pr.q) : pr.q[i] = "error"

\* C29 (SpecLoop): when the capture thread finds no loopback device, or a
\* record call raises while the stop event is not set, the thread hands the
\* exception over to the queue; the generator step that takes an exception
\* from the queue raises it (it enters its finally for an error and yields
\* nothing); and once an exception is on its way the generator finishes
\* instead of waiting in q.get() forever.
C29_ErrorSurfaced ==
    /\ [][((pr.th = "find" /\ pr'.out = "no_device")
             \/ (pr.th = "rec" /\ pr'.out = "record_raised" /\ ~pr.stop))
            => pr'.ready = Append(pr.ready, "error")]_vars
    /\ [][(pr.q # <<>> /\ Head(pr.q) = "error" /\ pr'.q = Tail(pr.q))
            => (pr'.why = "error" /\ pr'.pc \in {"fin_sleep", "shutdown"}
                /\ pr'.got = pr.got)]_vars
    /\ ErrorHandedOver ~> (pr.pc = "ended")

\* a record call raised after chunks were delivered, and the generator
\* raised the exception to its consumer
C29_Witness ==
    /\ pr.pc = "ended"
    /\ pr.end = "raised"
    /\ pr.out = "record_raised"
    /\ pr.got >= 1


\* C30 (SpecLoop): once the stop event is set the capture thread ends (it
\* leaves its loop after the record call in progress and runs its finally),
\* and the generator's cleanup completes: the executor is shut down and the
\* handle of the tag is removed.
C30_StopThenCleanup ==
    /\ pr.stop ~> (pr.th = "done")
    /\ pr.stop ~> (pr.exec = "down" /\ ~pr.handle)


\* the chunks handed over so far are consecutive runs from sample 1
RECURSIVE InOrder(_, _)
InOrder(sent, i) ==
    \/ i > Len(sent)
    \/ /\ sent[i].lo = (i - 1) * AUDIO_CHUNK_SIZE + 1
       /\ InOrder(sent, i + 1)

\* C31 (SpecRechunk): every chunk the capture thread hands over is
\* AUDIO_CHUNK_SIZE samples, 2 * AUDIO_CHUNK_SIZE bytes, whatever the frame
\* counts of the record calls; the chunks are consecutive runs of the
\* captured samples starting at the first one; while the stop event is not
\* set the chunks and the buffer together are exactly the captured samples;
\* and at the end of each loop iteration fewer than AUDIO_CHUNK_SIZE samples
\* are buffered.
C31_FixedChunksInOrder ==
    pr.pc # "idle" =>
       /\ \A i \in 1..Len(pr.sent) :
             pr.sent[i].n = AUDIO_CHUNK_SIZE /\ pr.sent[i].bytes = ChunkBytes
       /\ InOrder(pr.sent, 1)
       /\ pr.buf.lo + pr.buf.n = pr.captured + 1
       /\ ~pr.stop => pr.buf.lo = Len(pr.sent) * AUDIO_CHUNK_SIZE + 1
       /\ pr.pc \in {"top", "rec", "exited"} => pr.buf.n < AUDIO_CHUNK_SIZE

\* one record call returned more than two chunks' worth after a short one:
\* two chunks went out and a rest stays buffered
C31_Witness ==
    /\ pr.pc = "top"
    /\ pr.captured = 100 + 2 * AUDIO_CHUNK_SIZE + 256
    /\ Len(pr.sent) = 2
    /\ pr.buf.n = 356


\* C32 (SpecFile): for a file that exists, opens as WAV and is mono, 16 bit
\* at AUDIO_SAMPLE_RATE with n frames, each chunk the file producer yields
\* starts where the one before ended, has between 1 and AUDIO_CHUNK_SIZE
\* frames, and is shorter than AUDIO_CHUNK_SIZE only if it ends the file;
\* the producer never raises, and it has ended after ceil(n /
\* AUDIO_CHUNK_SIZE) chunks that cover the n frames.
C32_FileChunksInOrder ==
    /\ []((fg.pc # "idle" /\ fg.exists /\ fg.wav
             /\ FormatOk(fg.channels, fg.sampwidth, fg.framerate)) =>
            /\ fg.pc \in {"new", "yielded", "done"}
            /\ fg.pos = Min(fg.yielded * AUDIO_CHUNK_SIZE, fg.nframes)
            /\ fg.pc = "yielded" => fg.yielded >= 1
            /\ fg.pc = "done" => (fg.pos = fg.nframes
                                  /\ fg.yielded = CeilDiv(fg.nframes, AUDIO_CHUNK_SIZE))
            /\ fg.pc # "done" => ENABLED (FgOpen \/ FgNextChunk))
    /\ [][(fg.pc # "idle" /\ fg'.yielded # fg.yielded) =>
            /\ fg'.yielded = fg.yielded + 1
            /\ fg'.pos - fg.pos \in 1..AUDIO_CHUNK_SIZE
            /\ fg'.pos - fg.pos < AUDIO_CHUNK_SIZE => fg'.pos = fg.nframes]_vars

\* a valid file of one chunk and one frame has been read to its end
C32_Witness ==
    /\ fg.pc = "done"
    /\ fg.nframes = AUDIO_CHUNK_SIZE + 1
    /\ fg.yielded = 2
    /\ FormatOk(fg.channels, fg.sampwidth, fg.framerate)


\* C33 (SpecAM): AudioManager.stop_stream(tag) on an active tag takes the
\* handle out of active_streams only after the producer has acknowledged the
\* stop: when the call returns, the producer it has stopped has finished.
C33_HandleKeptUntilAcknowledged ==
    (ev.op = "stop_stream" /\ ev.res = "returned") =>
        tasks[ev.task].gen \notin {"open", "halted", "orphan", "closing"}


\* what the engine holds for tag t: its two dict entries and its pipeline
\* tasks
TagState(t) ==
    <<transcription_tasks[t], active_streams[t],
      {<<k, tasks[k]>> : k \in {j \in TaskIds : tasks[j].tag = t}}>>

\* C34 (SpecTags): a stop_transcription_stream(a) call, its return, and the
\* step in which a pipeline of tag a ends (end of file, error or
\* cancellation) change nothing of another tag b: b's entries in
\* transcription_tasks and active_streams and the state of b's pipeline
\* tasks stay as they are.
C34_OtherTagsUntouched ==
    [][\A a \in Tags : \A b \in Tags \ {a} :
          (\/ (ev'.op \in {"stop_transcription_stream", "stop_return"} /\ ev'.tag = a)
           \/ \E k \in TaskIds : /\ tasks[k].tag = a
                                 /\ tasks[k].pc \notin {"free", "done"}
                                 /\ tasks'[k].pc \in {"free", "done"})
            => TagState(b)' = TagState(b)]_vars

\* a stop of t1 has returned after its loopback pipeline was cancelled, while
\* a loopback pipeline of t2 waits for its next chunk with its handle in place
C34_Witness ==
    /\ ev.op = "stop_return"
    /\ ev.tag = "t1"
    /\ transcription_tasks["t2"] # 0
    /\ tasks[transcription_tasks["t2"]].pc = "wait_chunk"
    /\ tasks[transcription_tasks["t2"]].src = "screen"
    /\ active_streams["t2"] = transcription_tasks["t2"]
    /\ active_streams["t1"] = 0


\* C35 (SpecHandle): the handle of a tag leaves active_streams only through
\* AudioManager.stop_stream or when the producer that registered it ends: a
\* step of another producer does not remove it.
C35_CleanupRemovesOwnHandle ==
    [][\A t \in Tags :
          LET k == active_streams[t]
          IN (k # 0 /\ active_streams'[t] = 0 /\ ev'.op # "stop_stream")
               => tasks'[k].gen \notin {"open", "halted", "orphan", "closing"}]_vars


\* C36 (SpecLoad): the model instance a running pipeline is bound to is
\* loaded.
C36_BoundModelStaysLoaded ==
    \A k \in TaskIds :
        (Running(k) /\ tasks[k].model # 0) => IsLoaded(tasks[k].model)


\* C37 (SpecLoad): when a load_transcription_model call returns normally,
\* current_model is the instance the call created and that instance is
\* loaded.
C37_ReturnedLoadIsCurrent ==
    (ev.op = "load_return" /\ ev.res = "returned") =>
        (current_model = ev.task /\ IsLoaded(ev.task))


\* C38 (SpecWsShared): a handler whose start request was accepted or
\* ignored and that leaves on a disconnect or an error stops no pipeline but
\* the one its own start request created: a pipeline of the tag that another
\* connection started is left running.
C38_StopsOnlyOwnPipeline ==
    [][(/\ ws.pc \in {"send_started", "loop"}
        /\ ws' # ws
        /\ ws'.why \in {"disconnect", "error"}
        /\ ev'.op = "stop_transcription_stream"
        /\ ev'.task # 0)
          => ev'.task = ws.own]_vars

====
